---- MODULE Spec2Model ----
(***************************************************************************)
(* PwrSysPro-SSC: the unified calculation pipeline of                      *)
(* CalculationOrchestrator (js/calculation_orchestrator.js, second,        *)
(* current definition of the class) together with the modules it calls:    *)
(* TopologyManager (topology_manager.js), Bus/BusSystem (bus_model.js),    *)
(* the motor contribution module, the IEEE 1584-2018 arc flash module,     *)
(* the NFPA 70E PPE module and the ResultsStore.                           *)
(*                                                                         *)
(* Numbers.  The program computes in IEEE doubles; the model computes in   *)
(* fixed point, every division rounding toward zero:                       *)
(*   voltages                      V      (transformer kV fields: kV*1000) *)
(*   impedances                    micro-ohm                               *)
(*   currents (A and kA fields)    A                                       *)
(*   cable R/X per km              milli-ohm/km, length in m               *)
(*   transformer %Z                hundredths of a percent                 *)
(*   transformer R/X ratio (rx)    thousandths                             *)
(*   X/R ratios                    hundredths                              *)
(*   arc duration                  ms, working distance and gap in mm      *)
(*   incident energy               hundredths of cal/cm^2 (or of J/cm^2)   *)
(*   decimal logarithms            thousandths of a decade                 *)
(* Undefined, NaN and Huge are the three non-numeric outcomes a double or  *)
(* a missing property can have here.                                       *)
(***************************************************************************)
EXTENDS Integers, Sequences, FiniteSets, TLC

-----------------------------------------------------------------------------
(* JavaScript values *)

\* a property that is absent from an object (undefined)
Undefined == -2000000001
\* the double NaN (0 + undefined, 0/0)
NaN == -2000000002
\* a finite double above the fixed-point range of the model
Huge == 2000000003
\* the largest magnitude the model's fixed point carries exactly
Cap == 2000000000

IsNum(v) == v # Undefined /\ v # NaN

\* !v
Falsy(v) == v = Undefined \/ v = NaN \/ v = 0

\* a || b
Or(a, b) == IF Falsy(a) THEN b ELSE a

\* a < b, a <= b, a > b, a >= b on doubles: false when either side is not a number
Lt(a, b) == IsNum(a) /\ IsNum(b) /\ a < b
Le(a, b) == IsNum(a) /\ IsNum(b) /\ a <= b
Gt(a, b) == IsNum(a) /\ IsNum(b) /\ a > b
Ge(a, b) == IsNum(a) /\ IsNum(b) /\ a >= b

Abs(a) == IF a < 0 THEN -a ELSE a

\* a + b
Add(a, b) ==
    IF a = NaN \/ b = NaN \/ a = Undefined \/ b = Undefined THEN NaN
    ELSE IF a = Huge \/ b = Huge THEN Huge
    ELSE IF a = -Huge \/ b = -Huge THEN -Huge
    ELSE IF a > 0 /\ b > 0 /\ a > Cap - b THEN Huge
    ELSE IF a < 0 /\ b < 0 /\ a < -Cap - b THEN -Huge
    ELSE a + b

\* a * b, overflowing to Huge or -Huge
Mul(a, b) ==
    IF a = NaN \/ b = NaN \/ a = Undefined \/ b = Undefined THEN NaN
    ELSE IF a = 0 \/ b = 0 THEN 0
    ELSE LET aa == Abs(a)
             bb == Abs(b)
             magnitude == IF aa = Huge \/ bb = Huge \/ aa > Cap \div bb THEN Huge
                          ELSE aa * bb
         IN  IF (a < 0) = (b < 0) THEN magnitude ELSE -magnitude

\* a / b for a non-zero b, rounding toward zero
Div(a, b) ==
    IF a = NaN \/ b = NaN \/ a = Undefined \/ b = Undefined THEN NaN
    ELSE LET magnitude == IF Abs(a) = Huge THEN Huge ELSE Abs(a) \div Abs(b)
         IN  IF (a < 0) = (b < 0) THEN magnitude ELSE -magnitude

Min(a, b) == IF a < b THEN a ELSE b

\* Math.sqrt on a non-negative integer: the integer square root
RECURSIVE SqrtIter(_, _, _)
SqrtIter(n, lo, hi) ==
    IF lo >= hi THEN lo
    ELSE LET mid == (lo + hi + 1) \div 2
         IN  IF mid * mid <= n THEN SqrtIter(n, mid, hi) ELSE SqrtIter(n, lo, mid - 1)

Sqrt(n) == SqrtIter(n, 0, Min(n, 46340))

\* v * num / den
Scale(v, num, den) == Div(Mul(v, num), den)

\* v * ratio for a ratio in ten-thousandths, dividing first where the product would
\* leave the fixed-point range
TimesRatio(v, ratio) ==
    IF IsNum(v) /\ Abs(v) > 100000 THEN Mul(Div(v, 10000), ratio)
    ELSE Div(Mul(v, ratio), 10000)

Max(a, b) == IF a > b THEN a ELSE b

\* Math.sqrt(a * a + b * b)
Hypot(a, b) ==
    IF ~IsNum(a) \/ ~IsNum(b) THEN NaN
    ELSE IF Abs(a) = Huge \/ Abs(b) = Huge THEN Huge
    ELSE LET s == Max(Abs(a), Abs(b)) \div 30000 + 1
             as == Abs(a) \div s
             bs == Abs(b) \div s
         IN  Mul(SqrtIter(as * as + bs * bs, 0, 46340), s)


\* the concatenation of a sequence of sequences
RECURSIVE Flatten(_)
Flatten(ss) == IF ss = <<>> THEN <<>> ELSE Head(ss) \o Flatten(Tail(ss))

RECURSIVE SumSeq(_)
SumSeq(s) == IF s = <<>> THEN 0 ELSE Add(Head(s), SumSeq(Tail(s)))

Range(s) == {s[i] : i \in DOMAIN s}

-----------------------------------------------------------------------------
(* Inputs: component records and project data *)

\* longest component list of a project
MaxComps == 2

\* a component with every property absent
NoComp ==
    [type |-> "", name |-> "", voltage |-> Undefined,
     power |-> Undefined, powerUnit |-> "", impedance |-> Undefined, rx |-> Undefined,
     primaryV |-> Undefined, secondaryV |-> Undefined,
     length |-> Undefined, resistance |-> Undefined, reactance |-> Undefined,
     toBus |-> "", createsBus |-> FALSE,
     faultCurrent |-> Undefined, shortCircuitMVA |-> Undefined, isc |-> Undefined,
     xr |-> Undefined,
     hp |-> Undefined, lockedRotorMultiplier |-> Undefined, motorType |-> "",
     fromBus |-> "", bus |-> ""]

\* utility given by its short-circuit power, 100 MVA
UtilityMVA == [NoComp EXCEPT !.type = "utility", !.shortCircuitMVA = 100, !.xr = 1000]
\* utility given by its fault current, 10 kA, X/R left to the default
UtilityKA == [NoComp EXCEPT !.type = "utility", !.faultCurrent = 10]
\* 1000 kVA, 5 %, 34.5 kV / 480 V transformer with its unit tag
XfmrTagged ==
    [NoComp EXCEPT !.type = "transformer", !.power = 1000, !.powerUnit = "kVA",
                   !.impedance = 500, !.primaryV = 34500, !.secondaryV = 480, !.rx = 70]
\* the same rating given without powerUnit and without R/X, 120 V secondary
XfmrUntagged ==
    [NoComp EXCEPT !.type = "transformer", !.power = 500,
                   !.impedance = 400, !.primaryV = 34500, !.secondaryV = 120]
\* a transformer whose secondary voltage is negative
XfmrNegV ==
    [NoComp EXCEPT !.type = "transformer", !.power = 1000, !.powerUnit = "kVA",
                   !.impedance = 500, !.primaryV = 34500, !.secondaryV = -480]
\* 100 m of cable, 0.153 + j0.171 ohm/km
CableOK ==
    [NoComp EXCEPT !.type = "cable", !.length = 100, !.resistance = 153,
                   !.reactance = 171, !.voltage = 480]
\* a cable of length zero
CableZeroLen == [CableOK EXCEPT !.length = 0]
\* a 100 hp motor that names no bus
MotorNoBus == [NoComp EXCEPT !.type = "motor", !.hp = 100, !.voltage = 480]
\* a 50 hp motor that names bus 1 in fromBus
MotorBus1 == [NoComp EXCEPT !.type = "motor", !.hp = 50, !.voltage = 480, !.fromBus = "1"]
\* a 50 hp motor that names a bus no project has
MotorBus9 == [NoComp EXCEPT !.type = "motor", !.hp = 50, !.voltage = 480, !.fromBus = "Bus 9"]
\* utility given by isc in A where kA is meant (5000 for 5 kA), at 14 kV
UtilityIsc == [NoComp EXCEPT !.type = "utility", !.isc = 5000, !.voltage = 14]

Catalog ==
    {UtilityMVA, UtilityKA, XfmrTagged, XfmrUntagged, XfmrNegV,
     CableOK, CableZeroLen, MotorNoBus, MotorBus1, MotorBus9, UtilityIsc}

ComponentLists == UNION {[1..n -> Catalog] : n \in 0..MaxComps}

\* projectData.voltage
SystemVoltages == {34500, 480, 0}

\* projectData.arcFlashParams: {workingDistance (mm), arcDuration (ms)}
ArcFlashParamSets ==
    {[workingDistance |-> Undefined, arcDuration |-> Undefined],
     [workingDistance |-> 450, arcDuration |-> 2000],
     [workingDistance |-> 0, arcDuration |-> 10],
     [workingDistance |-> -450, arcDuration |-> 0]}

Projects ==
    [voltage : SystemVoltages, components : ComponentLists,
     arcFlashParams : ArcFlashParamSets]

\* what the page has loaded beside the orchestrator, the topology manager and the
\* bus model: the IEEE 1584 / PPE modules, the motor module, window.resultsStore
Environments ==
    {[arcFlashModule |-> TRUE, motorModule |-> TRUE, resultsStore |-> TRUE],
     [arcFlashModule |-> FALSE, motorModule |-> FALSE, resultsStore |-> FALSE]}

EntryPoints == {"runAllAnalysis", "runShortCircuitAnalysis",
                "runVoltageDropAnalysis", "runArcFlashAnalysis"}

-----------------------------------------------------------------------------
(* State *)

VARIABLES
    env,          \* which optional modules the page has loaded
    pc,           \* position of the running entry point
    entry,        \* the entry point that was called
    projectData,  \* this.projectData
    state,        \* this.state of the orchestrator
    ret,          \* the value the entry point's promise resolves to
    store,        \* what localStorage holds under the ResultsStore keys
    consoleWarn,  \* the messages written with console.warn
    history,      \* the values earlier invocations on this orchestrator returned
    call          \* a direct call of a library function: its arguments and its result

vars == <<env, pc, entry, projectData, state, ret, store, consoleWarn, history, call>>

\* null, and a non-null value
Null == <<>>
Some(v) == <<v>>

\* zero or one message
When(cond, m) == IF cond THEN <<m>> ELSE <<>>

\* the orchestrator's state object as the constructor and reset() build it
FreshState ==
    [validated |-> FALSE, topology |-> Null, thevenin |-> Null, shortCircuit |-> Null,
     voltageDrop |-> Null, arcFlash |-> Null, motorContribution |-> Null,
     results |-> Null, calculationLog |-> <<>>, assumptions |-> <<>>]

\* logStep(message): one more entry at the end of the calculation log
logStep(log, message) == Append(log, message)

\* a log, error or warning message about component number idx (0: about no component)
Msg(idx, text) == [idx |-> idx, text |-> text]

\* addAssumption(category, description)
Assumption(category, idx, description) ==
    [category |-> category, idx |-> idx, description |-> description]

-----------------------------------------------------------------------------
(* validateInputs *)

CableErrors(c, n) ==
    When(Falsy(c.length) \/ Le(c.length, 0), Msg(n, "Cable: Invalid length (must be positive)"))
    \o When(Lt(c.length, 0), Msg(n, "Cable: Negative length is impossible"))
    \o When(Falsy(c.resistance) \/ Falsy(c.reactance), Msg(n, "Cable: Missing impedance data"))
    \o When(Lt(c.resistance, 0) \/ Lt(c.reactance, 0),
            Msg(n, "Cable: Negative impedance values are impossible"))

CableWarnings(c, n) ==
    When(Falsy(c.voltage), Msg(n, "Cable: Voltage level not specified. Will use system voltage"))
    \o When(~Falsy(c.voltage) /\ Lt(c.voltage, 100), Msg(n, "Cable: Voltage seems very low"))
    \o When(~Falsy(c.reactance) /\ ~Falsy(c.voltage) /\ Lt(c.voltage, 1000) /\ Gt(c.reactance, 200),
            Msg(n, "Cable: Reactance is unusually high for LV cable"))
    \o When(~Falsy(c.reactance) /\ ~Falsy(c.voltage) /\ Lt(c.voltage, 1000) /\ Lt(c.reactance, 10),
            Msg(n, "Cable: Reactance is unusually low"))

CableAssumptions(c, n) ==
    When(Falsy(c.voltage),
         Assumption("Cable Validation", n, "voltage not specified - using system voltage"))
    \o When(~Falsy(c.reactance) /\ ~Falsy(c.voltage) /\ Lt(c.voltage, 1000) /\ Gt(c.reactance, 200),
            Assumption("Cable Validation", n, "has high reactance"))

TransformerErrors(c, n) ==
    When(Falsy(c.power) \/ Le(c.power, 0), Msg(n, "Transformer: Invalid power rating (MVA)"))
    \o When(Lt(c.power, 0), Msg(n, "Transformer: Negative power rating is impossible"))
    \o When(Falsy(c.impedance) \/ Le(c.impedance, 0), Msg(n, "Transformer: Invalid impedance (%Z)"))
    \o When(Lt(c.impedance, 0), Msg(n, "Transformer: Negative impedance is impossible"))

TransformerWarnings(c, n) ==
    When(Gt(c.impedance, 1500), Msg(n, "Transformer: Impedance is unusually high"))
    \o When(Lt(c.impedance, 200), Msg(n, "Transformer: Impedance is unusually low"))
    \o When(Falsy(c.primaryV) \/ Le(c.primaryV, 0),
            Msg(n, "Transformer: Primary voltage not specified or invalid"))
    \o When(Falsy(c.secondaryV) \/ Le(c.secondaryV, 0),
            Msg(n, "Transformer: Secondary voltage not specified or invalid"))
    \o When(~Falsy(c.primaryV) /\ Gt(c.primaryV, 1000000),
            Msg(n, "Transformer: Primary voltage seems very high"))
    \o When(~Falsy(c.secondaryV) /\ Gt(c.secondaryV, 10000000),
            Msg(n, "Transformer: Secondary voltage seems very high"))

TransformerAssumptions(c, n) ==
    When(Falsy(c.rx) /\ c.rx # 0,
         Assumption("Transformer", n, "R/X ratio not specified - using IEEE 141 typical value"))

UtilityErrors(c, n) ==
    When(c.isc # Undefined /\ Le(c.isc, 0), Msg(n, "Utility: Invalid fault current (must be positive)"))
    \o When(c.isc # Undefined /\ ~Falsy(c.voltage) /\ ~Falsy(c.isc) /\ Gt(c.isc, 1000),
            Msg(n, "Utility: ISC is implausibly high"))
    \o When(c.type = "utility" /\ Falsy(c.faultCurrent) /\ Falsy(c.shortCircuitMVA) /\ Falsy(c.isc),
            Msg(n, "Utility: Must specify fault current (kA) or SC MVA"))

UtilityWarnings(c, n) ==
    When(c.isc # Undefined /\ ~Falsy(c.voltage) /\ ~Falsy(c.isc)
            /\ (c.voltage > 0) = (c.isc > 0)
            /\ Gt(Mul(1732, Mul(Abs(c.voltage), Abs(c.isc))), 10000000),
         Msg(n, "Utility: Implied fault MVA is very high"))

ComponentErrors(c, n) ==
    (IF c.type = "cable" THEN CableErrors(c, n) ELSE <<>>)
    \o (IF c.type = "transformer" THEN TransformerErrors(c, n) ELSE <<>>)
    \o (IF c.type \in {"utility", "utility_isc"} THEN UtilityErrors(c, n) ELSE <<>>)

ComponentWarnings(c, n) ==
    (IF c.type = "cable" THEN CableWarnings(c, n) ELSE <<>>)
    \o (IF c.type = "transformer" THEN TransformerWarnings(c, n) ELSE <<>>)
    \o (IF c.type \in {"utility", "utility_isc"} THEN UtilityWarnings(c, n) ELSE <<>>)

ComponentAssumptions(c, n) ==
    (IF c.type = "cable" THEN CableAssumptions(c, n) ELSE <<>>)
    \o (IF c.type = "transformer" THEN TransformerAssumptions(c, n) ELSE <<>>)

\* validateInputs(projectData): the errors, the warnings, and the assumptions it adds
validateInputs(p) ==
    LET errors ==
            When(Falsy(p.voltage) \/ Le(p.voltage, 0), Msg(0, "Invalid system voltage"))
            \o When(Len(p.components) = 0, Msg(0, "No components defined"))
            \o Flatten([i \in 1..Len(p.components) |-> ComponentErrors(p.components[i], i)])
    IN  [valid |-> errors = <<>>,
         errors |-> errors,
         warnings |-> Flatten([i \in 1..Len(p.components) |-> ComponentWarnings(p.components[i], i)]),
         assumptions |-> Flatten([i \in 1..Len(p.components) |-> ComponentAssumptions(p.components[i], i)])]

\* the log entries validateInputs writes: one WARNING entry per warning
WarningEntries(warnings) ==
    [i \in 1..Len(warnings) |-> [idx |-> warnings[i].idx, text |-> "WARNING: " \o warnings[i].text]]

-----------------------------------------------------------------------------
(* TopologyManager *)

\* addBus(name, voltage, type): the bus with the next id, no connection yet
addBus(buses, name, voltage, type) ==
    Append(buses, [id |-> Len(buses) + 1, name |-> name, voltage |-> voltage,
                   type |-> type, connectedBuses |-> <<>>])

\* getBusByName(name): the id of the first bus of that name, 0 when there is none
getBusByName(buses, name) ==
    IF \E i \in DOMAIN buses : buses[i].name = name
    THEN CHOOSE i \in DOMAIN buses :
            buses[i].name = name /\ \A j \in DOMAIN buses : buses[j].name = name => i <= j
    ELSE 0

\* connectedBuses with id pushed unless it is included already
PushUnique(connected, id) ==
    IF id \in Range(connected) THEN connected ELSE Append(connected, id)

\* addComponent that keeps the component and the buses' neighbours but records
\* no connection
addComponentUnrecorded(topo, component, index, fromBusId, toBusId) ==
    LET cwt == [comp |-> component, index |-> index, fromBus |-> fromBusId, toBus |-> toBusId]
    IN  [topo EXCEPT !.components = Append(@, cwt)]

\* addComponent(component, fromBusId, toBusId); toBusId 0 stands for null.
\* topo is [buses, components, connections, currentBusId, currentVoltage].
addComponent(topo, component, index, fromBusId, toBusId) ==
    LET cwt == [comp |-> component, index |-> index, fromBus |-> fromBusId, toBus |-> toBusId]
        b1 == IF toBusId = 0 THEN topo.buses
              ELSE [topo.buses EXCEPT ![fromBusId].connectedBuses = PushUnique(@, toBusId)]
        b2 == IF toBusId = 0 THEN b1
              ELSE [b1 EXCEPT ![toBusId].connectedBuses = PushUnique(@, fromBusId)]
    IN  [topo EXCEPT
            !.buses = b2,
            !.components = Append(@, cwt),
            !.connections = IF toBusId = 0 THEN @
                            ELSE Append(@, [fromBus |-> fromBusId, toBus |-> toBusId,
                                            component |-> cwt])]

\* the body of buildFromProject's components.forEach for one component
\* (index is the 1-based position, the source's index + 1)
ProcessComponent(topo, component, index) ==
    LET defaultName == IF component.name # "" THEN component.name
                       ELSE "Bus " \o ToString(index)
    IN
    IF component.type = "utility" THEN
        addComponent(topo, component, index, topo.currentBusId, 0)
    ELSE IF component.type = "transformer" THEN
        LET secondaryVoltage ==
                IF ~Falsy(component.secondaryV) THEN component.secondaryV
                ELSE Or(component.voltage, 480)
            withBus == [topo EXCEPT !.buses = addBus(@, defaultName, secondaryVoltage, "load")]
            newId == Len(withBus.buses)
        IN  [addComponent(withBus, component, index, topo.currentBusId, newId)
                EXCEPT !.currentBusId = newId, !.currentVoltage = secondaryVoltage]
    ELSE IF component.type = "cable" THEN
        LET cableVoltage == Or(component.voltage, topo.currentVoltage)
        IN  IF component.toBus # "" THEN
                LET found == getBusByName(topo.buses, component.toBus)
                    withBus == IF found # 0 THEN topo
                               ELSE [topo EXCEPT !.buses =
                                        addBus(@, component.toBus, cableVoltage, "load")]
                    toId == IF found # 0 THEN found ELSE Len(withBus.buses)
                IN  [addComponent(withBus, component, index, topo.currentBusId, toId)
                        EXCEPT !.currentBusId = toId]
            ELSE IF component.createsBus THEN
                LET withBus == [topo EXCEPT !.buses =
                                    addBus(@, defaultName, cableVoltage, "load")]
                    newId == Len(withBus.buses)
                IN  [addComponent(withBus, component, index, topo.currentBusId, newId)
                        EXCEPT !.currentBusId = newId]
            ELSE addComponent(topo, component, index, topo.currentBusId, 0)
    ELSE
        \* generator, motor, motor_load and every other type: on the current bus
        addComponent(topo, component, index, topo.currentBusId, 0)

RECURSIVE ProcessComponents(_, _, _)
ProcessComponents(topo, components, index) ==
    IF index > Len(components) THEN topo
    ELSE ProcessComponents(ProcessComponent(topo, components[index], index), components, index + 1)

\* buildFromProject up to the call of toBusSystem: the manager's buses, components
\* and connections
buildFromProject(p) ==
    LET sourceVoltage == Or(p.voltage, 13800)
        start == [buses |-> addBus(<<>>, "Source", sourceVoltage, "source"),
                  components |-> <<>>, connections |-> <<>>,
                  currentBusId |-> 1, currentVoltage |-> sourceVoltage]
    IN  ProcessComponents(start, p.components, 1)

\* validateTopology(): its errors and warnings
validateTopology(topo) ==
    [errors |->
        Flatten([i \in DOMAIN topo.components |->
                    When(topo.components[i].fromBus = 0, Msg(i, "Component has no fromBus"))])
        \o When(~\E i \in DOMAIN topo.buses : topo.buses[i].type = "source",
                Msg(0, "No source bus defined in topology")),
     warnings |->
        Flatten([i \in DOMAIN topo.buses |->
                    When(topo.buses[i].type # "source" /\ topo.buses[i].connectedBuses = <<>>,
                         Msg(i, "Bus is not connected to any other bus"))])]

-----------------------------------------------------------------------------
(* toBusSystem: the BusSystem with each bus's accumulated impedance *)

\* z split by an X/R ratio (in hundredths): r = z / sqrt(1 + xr^2), x = r * xr
SplitByXR(z, xr) ==
    LET r == Div(Mul(z, 100), Sqrt(10000 + xr * xr))
    IN  [r |-> r, x |-> Div(Mul(r, xr), 100)]

\* the temperature-corrected impedance of a cable: R x 1.216 (75 C copper), X as rated
CableImpedance(comp) ==
    LET length == Or(comp.length, 0)
    IN  [r |-> Div(Mul(Mul(comp.resistance, length), 1216), 1000),
         x |-> Mul(comp.reactance, length)]

UtilityZSourceInAmperes(comp, voltage) ==
    IF ~Falsy(comp.faultCurrent)
    THEN Mul(Div(Mul(voltage, 100000), 1732 * comp.faultCurrent), 10000)
    ELSE IF ~Falsy(comp.shortCircuitMVA)
    THEN Div(Mul(voltage, voltage), comp.shortCircuitMVA)
    ELSE 0

\* zSource of a utility at the given voltage, from faultCurrent (kA) or shortCircuitMVA
UtilityZSource(comp, voltage) ==
    IF ~Falsy(comp.faultCurrent)
    THEN Mul(Div(Mul(voltage, 100000), 1732 * comp.faultCurrent), 10)
    ELSE IF ~Falsy(comp.shortCircuitMVA)
    THEN Div(Mul(voltage, voltage), comp.shortCircuitMVA)
    ELSE 0

\* the guardrail of the utility branch: an implausibly small zSource (below 1e-6 ohm,
\* that is below one micro-ohm) at a distribution voltage
UtilityGuardrail(zSource, voltage) ==
    zSource > 0 /\ zSource < 1 /\ voltage >= 4000 /\ voltage <= 35000

UtilityImpedance(comp, busVoltage) ==
    LET voltage == Or(comp.voltage, busVoltage)
    IN  SplitByXR(UtilityZSource(comp, voltage), Or(comp.xr, 1000))

\* the unit getTransformerPowerMVA settles on: the tag, or the migration heuristic
TransformerPowerUnit(transformer) ==
    IF transformer.powerUnit \in {"kVA", "MVA"} THEN transformer.powerUnit
    ELSE IF Or(transformer.secondaryV, 480) <= 1000 THEN "kVA" ELSE "MVA"

getTransformerPowerMVAByVoltage(transformer) ==
    IF Or(transformer.secondaryV, 480) <= 1000 THEN Or(transformer.power, 1)
    ELSE Mul(Or(transformer.power, 1), 1000)

\* getTransformerPowerMVA(transformer), in kVA (MVA x 1000)
getTransformerPowerMVA(transformer) ==
    IF transformer.powerUnit = "kVA" THEN transformer.power
    ELSE IF transformer.powerUnit = "MVA" THEN Mul(transformer.power, 1000)
    ELSE IF TransformerPowerUnit(transformer) = "kVA" THEN Or(transformer.power, 1)
    ELSE Mul(Or(transformer.power, 1), 1000)

\* getTransformerPowerMVA warns on the console when it had to default the unit
PowerUnitDefaulted(transformer) == transformer.powerUnit \notin {"kVA", "MVA"}

\* the transformer's impedance on its secondary side
TransformerImpedance(comp) ==
    LET secondaryV == Abs(Or(comp.secondaryV, 480))
        powerKVA == getTransformerPowerMVA(comp)
        zBase == Mul(Div(Mul(Mul(secondaryV, secondaryV), 10), powerKVA), 100)
        zOhms == Div(Mul(Div(zBase, 100), Or(comp.impedance, 575)), 100)
        xr == IF ~Falsy(comp.rx) THEN 100000 \div comp.rx ELSE 1000
    IN  SplitByXR(zOhms, xr)

AddZ(z1, z2) == [r |-> Add(z1.r, z2.r), x |-> Add(z1.x, z2.x)]

\* what component cwt adds to the impedance of bus busId
ImpedanceAdded(cwt, busId, busVoltage) ==
    LET comp == cwt.comp
        zero == [r |-> 0, x |-> 0]
        cable == IF cwt.fromBus = busId /\ comp.type = "cable"
                    /\ ~Falsy(comp.resistance) /\ ~Falsy(comp.reactance)
                 THEN CableImpedance(comp) ELSE zero
        utility == IF cwt.fromBus = busId /\ comp.type = "utility"
                   THEN UtilityImpedance(comp, busVoltage) ELSE zero
        xfmr == IF comp.type = "transformer" /\ cwt.toBus = busId
                THEN TransformerImpedance(comp) ELSE zero
    IN  AddZ(AddZ(cable, utility), xfmr)

RECURSIVE BusImpedance(_, _, _, _)
BusImpedance(components, i, busId, busVoltage) ==
    IF i > Len(components) THEN [r |-> 0, x |-> 0]
    ELSE AddZ(ImpedanceAdded(components[i], busId, busVoltage),
              BusImpedance(components, i + 1, busId, busVoltage))

\* the impedance a connection carries: the cable's or the transformer's, else null
ConnectionImpedance(conn) ==
    IF conn.component.comp.type = "cable" THEN Some(CableImpedance(conn.component.comp))
    ELSE IF conn.component.comp.type = "transformer"
    THEN Some(TransformerImpedance(conn.component.comp))
    ELSE Null

\* toBusSystem(): one Bus per topology bus, with the components whose fromBus it is,
\* its accumulated impedance and its connections
toBusSystem(topo) ==
    [b \in DOMAIN topo.buses |->
        [id |-> topo.buses[b].id,
         name |-> topo.buses[b].name,
         voltage |-> topo.buses[b].voltage,
         type |-> topo.buses[b].type,
         components |-> SelectSeq(topo.components, LAMBDA c : c.fromBus = b),
         impedance |-> BusImpedance(topo.components, 1, b, topo.buses[b].voltage),
         connections |->
            LET mine == SelectSeq(topo.connections, LAMBDA c : c.fromBus = b)
            IN  [k \in DOMAIN mine |->
                    [bus |-> mine[k].toBus, impedance |-> ConnectionImpedance(mine[k])]]]]

\* the console.warn calls of toBusSystem, in order
toBusSystemWarnings(topo) ==
    Flatten([i \in DOMAIN topo.components |->
        LET cwt == topo.components[i]
            bv == topo.buses[cwt.fromBus].voltage
        IN  When(cwt.comp.type = "utility"
                    /\ UtilityGuardrail(UtilityZSource(cwt.comp, Or(cwt.comp.voltage, bv)),
                                        Or(cwt.comp.voltage, bv)),
                 Msg(cwt.index, "Utility source has very small impedance"))
            \o When(cwt.comp.type = "transformer" /\ PowerUnitDefaulted(cwt.comp),
                    Msg(cwt.index, "Transformer missing powerUnit field. Defaulting"))])

-----------------------------------------------------------------------------
(* Bus.calculateTotalImpedance, Thevenin equivalents, short circuit *)

RECURSIVE TwoTo(_)
TwoTo(k) == IF k <= 0 THEN 1 ELSE 2 * TwoTo(k - 1)

\* 2^(-k / 10) for k = 0..10, in ten-thousandths
HalfPowers == <<10000, 9330, 8706, 8123, 7579, 7071, 6598, 6156, 5743, 5359, 5000>>

\* Math.pow(Math.E, -y) for y >= 0 in thousandths, in ten-thousandths: 2^(-t) for
\* t = y * log2(e), the fraction of t read from HalfPowers by linear interpolation;
\* never above 1 and never larger for a larger y
ExpNeg(y) ==
    IF y = Huge \/ y > 30000 THEN 0
    ELSE LET t == (y * 14427) \div 10000
             n == t \div 1000
             f == t % 1000
             k == f \div 100
             frac == HalfPowers[k + 1] - ((HalfPowers[k + 1] - HalfPowers[k + 2]) * (f % 100)) \div 100
         IN  IF n >= 14 THEN 0 ELSE frac \div TwoTo(n)

\* Math.sqrt(1 + 2 * Math.pow(Math.E, -4 * Math.PI / xr)) for xr in hundredths, in
\* ten-thousandths; xr = 0 gives the exponent -Infinity, a negative xr a positive one
FirstCycleFactor(xr) ==
    IF ~IsNum(xr) THEN NaN
    ELSE IF xr = 0 THEN 10000
    ELSE IF xr = Huge \/ xr = -Huge THEN Sqrt(300000000)
    ELSE IF xr > 0 THEN Sqrt(100000000 + 20000 * ExpNeg(1256637 \div xr))
    ELSE LET shrunk == ExpNeg(1256637 \div (-xr))
         IN  IF shrunk = 0 THEN Huge
             ELSE 100 * Sqrt(10000 + 2 * (100000000 \div shrunk))

\* comp.impedance.r (and .x) of a component whose impedance property is truthy: the
\* property is the transformer's %Z, a number, and a number has no r or x
ImpedancePart(comp) == Undefined

\* a calculateTotalImpedance that would put each motor of the bus in series with the
\* network, 0.001 + j0.001 ohm a motor
calculateTotalImpedanceWithMotors(bus) ==
    LET extra == [i \in DOMAIN bus.components |->
                    IF ~Falsy(bus.components[i].comp.impedance)
                    THEN ImpedancePart(bus.components[i].comp)
                    ELSE IF bus.components[i].comp.type = "motor" THEN 1000 ELSE 0]
        totalR == Add(bus.impedance.r, SumSeq(extra))
        totalX == Add(bus.impedance.x, SumSeq(extra))
    IN  [r |-> totalR, x |-> totalX, magnitude |-> Hypot(totalR, totalX)]

\* calculateTotalImpedance(): the bus impedance plus comp.impedance of its components
calculateTotalImpedance(bus) ==
    LET extra == [i \in DOMAIN bus.components |->
                    IF ~Falsy(bus.components[i].comp.impedance)
                    THEN ImpedancePart(bus.components[i].comp) ELSE 0]
        totalR == Add(bus.impedance.r, SumSeq(extra))
        totalX == Add(bus.impedance.x, SumSeq(extra))
    IN  [r |-> totalR, x |-> totalX, magnitude |-> Hypot(totalR, totalX)]

\* 0.001 ohm, the stand-in for a zero or NaN resistance or impedance
Epsilon == 1000

\* calculateTheveninEquivalents(topology)
calculateTheveninEquivalents(busSystem) ==
    [b \in DOMAIN busSystem |->
        LET impedance == calculateTotalImpedance(busSystem[b])
        IN  [busId |-> busSystem[b].id,
             busName |-> busSystem[b].name,
             voltage |-> busSystem[b].voltage,
             r |-> impedance.r,
             x |-> impedance.x,
             z |-> impedance.magnitude,
             xr |-> Div(Mul(impedance.x, 100), Or(impedance.r, Epsilon))]]

\* voltage / (sqrt(3) * z), in A, for z in micro-ohm
ThreePhaseCurrent(voltage, z) ==
    Div(Mul(Div(Mul(voltage, 100000), z), 1000), 173)

\* calculateShortCircuit(topology, thevenin)
calculateShortCircuit(busSystem, thevenin) ==
    [b \in DOMAIN busSystem |->
        LET th == thevenin[b]
            voltage == busSystem[b].voltage
            z == Or(th.z, Epsilon)
            i3phase == ThreePhaseCurrent(voltage, z)
            iLG == Scale(i3phase, 80, 100)
            iLL == Scale(i3phase, 87, 100)
            i2LG == Scale(i3phase, 95, 100)
            xr == Or(th.xr, 1000)
            asymFactor == FirstCycleFactor(xr)
            iPeak == TimesRatio(TimesRatio(i3phase, 14142), asymFactor)
            currents == [threePhase |-> i3phase, lineToGround |-> iLG, lineToLine |-> iLL,
                         doubleLineToGround |-> i2LG, symmetrical |-> i3phase,
                         asymmetrical |-> TimesRatio(i3phase, asymFactor),
                         peak |-> iPeak]
        IN  [busId |-> busSystem[b].id,
             busName |-> busSystem[b].name,
             voltage |-> voltage,
             impedance |-> [r |-> th.r, x |-> th.x, z |-> th.z, xr |-> xr],
             faultCurrents |-> currents,
             faultCurrentsKA |->
                [threePhase |-> i3phase, lineToGround |-> iLG, lineToLine |-> iLL,
                 doubleLineToGround |-> i2LG, symmetrical |-> i3phase,
                 asymmetrical |-> TimesRatio(i3phase, asymFactor),
                 peak |-> iPeak,
                 threePhaseWithMotors |-> Undefined,
                 interruptingWithMotors |-> Undefined,
                 sustainedWithMotors |-> Undefined],
             results |-> [x_over_r |-> xr, multiplier |-> asymFactor],
             motorContribution |-> Null]]

-----------------------------------------------------------------------------
(* Motor contribution *)

IsMotor(c) == c.type \in {"motor", "motor_load"}

\* hasMotors(projectData)
hasMotors(p) == \E i \in DOMAIN p.components : IsMotor(p.components[i])

\* MOTOR_CHARACTERISTICS: multipliers in tenths, decay factor in hundredths
MotorCharacteristics(motorType) ==
    IF motorType = "synchronous"
    THEN [lockedRotorMultiplier |-> 55, decayFactorInterrupting |-> 85,
          decayFactorSustained |-> 50]
    ELSE [lockedRotorMultiplier |-> 60, decayFactorInterrupting |-> 75,
          decayFactorSustained |-> 40]

\* calculateMotorFLA(motor): hp x 746 / (V x sqrt(3) x 0.90 x 0.85), three phases
calculateMotorFLA(motor) ==
    LET hp == Or(motor.hp, Or(motor.power, 100))
        voltage == Or(motor.voltage, 480)
        d1 == Div(Mul(voltage, 1732), 1000)
        d2 == Div(Mul(d1, 90), 100)
        d3 == Div(Mul(d2, 85), 100)
    IN  Div(Mul(hp, 746), d3)

\* calculateMotorLRA(motor, fla); lockedRotorMultiplier is given in tenths
calculateMotorLRA(motor, fla) ==
    Div(Mul(fla, Or(motor.lockedRotorMultiplier,
                    MotorCharacteristics(motor.motorType).lockedRotorMultiplier)), 10)

\* calculateMotorContributionTimeline(motor, fla, lra)
calculateMotorContributionTimeline(motor, fla, lra) ==
    LET ch == MotorCharacteristics(motor.motorType)
    IN  [firstCycle |-> lra,
         interrupting |-> Div(Mul(lra, ch.decayFactorInterrupting), 100),
         sustained |-> Div(Mul(fla, ch.decayFactorSustained), 10)]

\* the key under which a motor result is grouped: fromBus, else bus, else 'Unknown'
BusConnectionOf(motor) ==
    IF motor.fromBus # "" THEN motor.fromBus
    ELSE IF motor.bus # "" THEN motor.bus
    ELSE "Unknown"

\* the motors of the project, in order
MotorsOf(p) == SelectSeq(p.components, IsMotor)

\* calculateMotorContributionIEEE141(motors, topology): one result per motor
calculateMotorContributionIEEE141(motors) ==
    [motors |->
        [i \in DOMAIN motors |->
            LET fla == calculateMotorFLA(motors[i])
                lra == calculateMotorLRA(motors[i], fla)
            IN  [index |-> i, fla |-> fla, lra |-> lra,
                 contribution |-> calculateMotorContributionTimeline(motors[i], fla, lra),
                 busConnection |-> BusConnectionOf(motors[i])]],
     count |-> Len(motors)]

\* the orchestrator's own basic calculation, used when the motor module is not
\* loaded: 6 x FLA locked rotor, 75 % interrupting, 4 x FLA sustained, and no
\* busConnection on the result (integrateMotorContribution then reads 'Unknown')
MotorContributionFallback(motors) ==
    [motors |->
        [i \in DOMAIN motors |->
            LET fla == calculateMotorFLA(motors[i])
                lra == Div(Mul(fla, Or(motors[i].lockedRotorMultiplier, 60)), 10)
            IN  [index |-> i, fla |-> fla, lra |-> lra,
                 contribution |->
                    [firstCycle |-> lra,
                     interrupting |-> Div(Mul(lra, 75), 100),
                     sustained |-> Mul(fla, 4)],
                 busConnection |-> "Unknown"]],
     count |-> Len(motors)]

\* calculateMotorContribution(projectData, topology)
calculateMotorContribution(p, motorModule) ==
    IF motorModule THEN calculateMotorContributionIEEE141(MotorsOf(p))
    ELSE MotorContributionFallback(MotorsOf(p))

\* motorsByBus[key]: the motor results grouped under that key, in order
MotorsByBus(motorData, key) ==
    SelectSeq(motorData.motors, LAMBDA m : m.busConnection = key)

\* motorsByBus[busResult.busId] || motorsByBus[busResult.busName]
BusMotors(motorData, busResult) ==
    LET byId == MotorsByBus(motorData, ToString(busResult.busId))
    IN  IF byId # <<>> THEN byId ELSE MotorsByBus(motorData, busResult.busName)

\* the bus result after integrateMotorContribution
IntegrateBus(motorData, busResult) ==
    LET busMotors == BusMotors(motorData, busResult)
        motorFirstCycleKA == SumSeq([i \in DOMAIN busMotors |-> busMotors[i].contribution.firstCycle])
        motorInterruptingKA == SumSeq([i \in DOMAIN busMotors |-> busMotors[i].contribution.interrupting])
        motorSustainedKA == SumSeq([i \in DOMAIN busMotors |-> busMotors[i].contribution.sustained])
        threePhase == busResult.faultCurrentsKA.threePhase
    IN  IF busMotors # <<>>
        THEN [busResult EXCEPT
                !.motorContribution =
                    Some([firstCycleKA |-> motorFirstCycleKA,
                          interruptingKA |-> motorInterruptingKA,
                          sustainedKA |-> motorSustainedKA,
                          count |-> Len(busMotors),
                          motors |-> [i \in DOMAIN busMotors |-> busMotors[i].index]]),
                !.faultCurrentsKA.threePhaseWithMotors = Add(threePhase, motorFirstCycleKA),
                !.faultCurrentsKA.interruptingWithMotors = Add(threePhase, motorInterruptingKA),
                !.faultCurrentsKA.sustainedWithMotors = Add(threePhase, motorSustainedKA)]
        ELSE [busResult EXCEPT
                !.motorContribution = Null,
                !.faultCurrentsKA.threePhaseWithMotors = threePhase]

\* integrateMotorContribution(): the short-circuit results with the motors merged in
integrateMotorContribution(shortCircuit, motorData) ==
    [b \in DOMAIN shortCircuit |-> IntegrateBus(motorData, shortCircuit[b])]

\* the log entries integrateMotorContribution writes: one per bus that has motors
IntegrateLog(shortCircuit, motorData) ==
    Flatten([b \in DOMAIN shortCircuit |->
                When(BusMotors(motorData, shortCircuit[b]) # <<>>,
                     Msg(b, "Bus: Added motor contribution"))])

-----------------------------------------------------------------------------
(* Decimal logarithm and power in fixed point *)

RECURSIVE TenTo(_)
TenTo(k) == IF k <= 0 THEN 1 ELSE 10 * TenTo(k - 1)

\* the number of decimal digits of n >= 1, less one
RECURSIVE Magnitude(_)
Magnitude(n) == IF n < 10 THEN 0 ELSE 1 + Magnitude(n \div 10)

\* the first k fraction bits of log10(y / 4000), for 4000 <= y < 40000, by
\* repeated squaring; the result is in 1/1024 of a decade when k = 10
RECURSIVE LogBits(_, _)
LogBits(y, k) ==
    IF k = 0 THEN 0
    ELSE LET sq == (y * y) \div 4000
         IN  IF sq >= 40000 THEN TwoTo(k - 1) + LogBits(sq \div 10, k - 1)
             ELSE LogBits(sq, k - 1)

\* Math.log10(n) for an integer n >= 1, in thousandths of a decade
Log10(n) ==
    LET d == Magnitude(n)
        m == IF d > 4 THEN n \div TenTo(d - 4) ELSE n * TenTo(4 - d)
        y == (m * 4) \div 10
    IN  1000 * d + (LogBits(y, 10) * 1000) \div 1024

\* 10^(2^-k) for k = 1..10, in thousandths
RootOfTen == <<3162, 1778, 1334, 1155, 1075, 1037, 1018, 1009, 1005, 1002>>

\* 10^(f / 1024) for 0 <= f < 1024, in ten-thousandths
RECURSIVE PowBits(_, _)
PowBits(f, k) ==
    IF k > 10 THEN 10000
    ELSE LET rest == PowBits(f, k + 1)
         IN  IF (f \div TwoTo(10 - k)) % 2 = 1 THEN (rest * RootOfTen[k]) \div 1000
             ELSE rest

\* Math.pow(10, m / 1000) for m in thousandths of a decade, as an integer
PowTen(m) ==
    IF m = Huge \/ m >= 9300 THEN Huge
    ELSE IF m < 0 THEN 0
    ELSE LET q == m \div 1000
             mant == PowBits(((m % 1000) * 1024) \div 1000, 1)
         IN  IF q >= 4 THEN mant * TenTo(q - 4) ELSE mant \div TenTo(4 - q)

-----------------------------------------------------------------------------
(* Voltage drop *)

\* what one component adds to the load current of its bus, in A: no component carries a
\* current property; power * 1e6 / (sqrt(3) * voltage * 0.85) when it has both
LoadCurrentOf(comp) ==
    IF ~Falsy(comp.power) /\ ~Falsy(comp.voltage) /\ comp.voltage > 0
    THEN Div(Mul(comp.power, 1000000), Max(1, Scale(comp.voltage, 1472, 1000)))
    ELSE 0

\* the default load current, in A
DefaultLoadCurrent == 100

\* v / d * 100, in hundredths of a percent
PercentOf(v, d) == IF d = 0 THEN NaN ELSE Div(Mul(v, 10000), d)

\* calculateVoltageDrop(topology): drop in mV, percent in hundredths of a percent
calculateVoltageDrop(busSystem) ==
    [b \in DOMAIN busSystem |->
        LET bus == busSystem[b]
            impedance == calculateTotalImpedance(bus)
            loadCurrent ==
                Or(SumSeq([i \in DOMAIN bus.components |->
                              LoadCurrentOf(bus.components[i].comp)]),
                   DefaultLoadCurrent)
            perAmp == Add(Scale(impedance.r, 850, 1000), Scale(impedance.x, 527, 1000))
            voltageDropV == Scale(Div(Mul(perAmp, loadCurrent), 1000), 1732, 1000)
            voltageDropPercent == PercentOf(Div(voltageDropV, 1000), bus.voltage)
        IN  IF b = 1
            THEN [busId |-> bus.id, busName |-> bus.name, loadCurrent |-> Undefined,
                  voltageDropV |-> Undefined, voltageDropPercent |-> 0]
            ELSE [busId |-> bus.id, busName |-> bus.name, loadCurrent |-> loadCurrent,
                  voltageDropV |-> voltageDropV,
                  voltageDropPercent |-> voltageDropPercent]]

\* the assumptions calculateVoltageDrop adds: one per bus whose drop exceeds 3 %
VoltageDropAssumptions(voltageDrop) ==
    Flatten([b \in DOMAIN voltageDrop |->
        When(b > 1 /\ Gt(voltageDrop[b].voltageDropPercent, 300),
             Assumption("Voltage Drop", 0, "exceeds recommended 3% limit"))])

-----------------------------------------------------------------------------
(* IEEE 1584-2018 arc flash: logarithms in thousandths of a decade *)

\* log10 of a current given in A, as log10 of its value in kA
LogKA(amps) == Log10(amps) - 3000

\* calculateArcingCurrent: log10 of the arcing current in kA
LogArcingCurrent(voltage, boltedFaultCurrent, equipmentGap) ==
    LET k == IF voltage < 1000 THEN -153 ELSE -97
        logIbf == LogKA(boltedFaultCurrent)
    IN  k + (662 * logIbf) \div 1000
          + (966 * voltage) \div 10000
          + (526 * equipmentGap) \div 1000
          + (((5588 * voltage) \div 10000) * logIbf) \div 1000
          - (304 * equipmentGap * logIbf) \div 100000

\* calculateIncidentEnergy: log10 of the incident energy in cal/cm2 (the 4.184 factor
\* that makes it J/cm2 is applied by IncidentEnergyJ), for the VCB enclosure
\* (k1 = -0.792, k2 = 0)
LogIncidentEnergy(voltage, boltedFaultCurrent, workingDistance, arcDuration, equipmentGap) ==
    LET logIarc == LogArcingCurrent(voltage, boltedFaultCurrent, equipmentGap)
        K == -792 + (1081 * logIarc) \div 1000 + (11 * equipmentGap) \div 10
        x == 973 + (919 * equipmentGap) \div 10
    IN  K + (Log10(arcDuration) - Log10(200))
          + (x * (Log10(610) - Log10(workingDistance))) \div 1000

\* log10(4.184) and log10(5)
LogJoulePerCal == 622
LogBoundaryThreshold == 699

\* calculateArcFlashBoundary(incidentEnergy, workingDistance), in mm
calculateArcFlashBoundary(logEnergyJ, workingDistance) ==
    IF logEnergyJ <= LogBoundaryThreshold THEN workingDistance
    ELSE PowTen(Log10(workingDistance) + (logEnergyJ - LogBoundaryThreshold) \div 2)

\* calculateArcFlashIEEE1584_2018(params) for a voltage inside the range: currents in
\* A, energies in hundredths of J/cm2 and of cal/cm2
calculateArcFlashIEEE1584_2018(voltage, boltedFaultCurrent, workingDistance, arcDuration, equipmentGap) ==
    IF boltedFaultCurrent = Huge
    THEN [arcingCurrent |-> Huge, incidentEnergy |-> Huge, incidentEnergyCalCm2 |-> Huge,
          arcFlashBoundary |-> Huge, applicable |-> TRUE]
    ELSE LET logE == LogIncidentEnergy(voltage, boltedFaultCurrent, workingDistance,
                                       arcDuration, equipmentGap)
         IN  [arcingCurrent |->
                  PowTen(LogArcingCurrent(voltage, boltedFaultCurrent, equipmentGap) + 3000),
              incidentEnergy |-> PowTen(logE + LogJoulePerCal + 2000),
              incidentEnergyCalCm2 |-> PowTen(logE + 2000),
              arcFlashBoundary |->
                  calculateArcFlashBoundary(logE + LogJoulePerCal, workingDistance),
              applicable |-> TRUE]

-----------------------------------------------------------------------------
(* NFPA 70E PPE selection: energies in hundredths of cal/cm2 *)

\* NFPA_70E_2024_PPE_CATEGORIES: incidentEnergyMin, incidentEnergyMax and arcRating of
\* categories 0..4 (the sequence is indexed from 1)
NFPA_70E_2024_PPE_CATEGORIES ==
    << [incidentEnergyMin |-> 0,    incidentEnergyMax |-> 120,  arcRating |-> 0],
       [incidentEnergyMin |-> 120,  incidentEnergyMax |-> 400,  arcRating |-> 400],
       [incidentEnergyMin |-> 400,  incidentEnergyMax |-> 800,  arcRating |-> 800],
       [incidentEnergyMin |-> 800,  incidentEnergyMax |-> 2500, arcRating |-> 2500],
       [incidentEnergyMin |-> 2500, incidentEnergyMax |-> 4000, arcRating |-> 4000] >>

\* 40 cal/cm2, the top of category 4
Category4Max == 4000

\* getPPECategory(incidentEnergyCalCm2)
getPPECategory(incidentEnergyCalCm2) ==
    LET hits == {c \in 0..4 :
                    /\ Ge(incidentEnergyCalCm2,
                          NFPA_70E_2024_PPE_CATEGORIES[c + 1].incidentEnergyMin)
                    /\ Lt(incidentEnergyCalCm2,
                          NFPA_70E_2024_PPE_CATEGORIES[c + 1].incidentEnergyMax)}
    IN  IF hits # {} THEN CHOOSE c \in hits : \A d \in hits : c <= d
        ELSE IF Ge(incidentEnergyCalCm2, Category4Max) THEN 4
        ELSE 0

\* a JavaScript value that is a number or a string
NumberValue(n) == [typeof |-> "number", number |-> n, string |-> ""]
StringValue(t) == [typeof |-> "string", number |-> 0, string |-> t]

\* the warning property of the recommendations ("" when the property is absent)
OverflowWarning == "exceeds Category 4 maximum"

\* getDetailedPPERecommendations(incidentEnergyCalCm2)
getDetailedPPERecommendations(incidentEnergyCalCm2) ==
    LET category == getPPECategory(incidentEnergyCalCm2)
    IN  [category |-> NumberValue(category),
         arcRating |-> NFPA_70E_2024_PPE_CATEGORIES[category + 1].arcRating,
         incidentEnergy |-> incidentEnergyCalCm2,
         warning |-> IF Gt(incidentEnergyCalCm2, Category4Max) THEN OverflowWarning
                     ELSE ""]

\* generatePPEReport(arcFlashResults).ppe
generatePPEReport(arcFlash) ==
    getDetailedPPERecommendations(
        Or(arcFlash.incidentEnergyCalCm2, Scale(arcFlash.incidentEnergy, 1000, 4184)))

-----------------------------------------------------------------------------
(* calculateArcFlash of the orchestrator *)

\* the defaults behind arcFlashParams.workingDistance || 450 (mm) and
\* arcFlashParams.arcDuration || 0.1 (s, held in ms)
DefaultWorkingDistance == 450
DefaultArcDuration == 100

\* MissingFields with the upper end of the voltage range moved up to 35 kV: a gate
\* under which a 34.5 kV bus would be evaluated
MissingFieldsTo35kV(voltage, boltedFaultKA, workingDistance, arcDuration) ==
    When(~(Ge(voltage, 208) /\ Le(voltage, 35000)), "Voltage outside IEEE 1584-2018 range")
    \o When(Falsy(boltedFaultKA) \/ Le(boltedFaultKA, 0), "Valid bolted fault current required")
    \o When(Falsy(workingDistance) \/ Le(workingDistance, 0), "Working distance not specified")
    \o When(Falsy(arcDuration) \/ Le(arcDuration, 0),
            "Arc duration (clearing time) not specified")

\* the four entries missingFields can hold
MissingFields(voltage, boltedFaultKA, workingDistance, arcDuration) ==
    When(~(Ge(voltage, 208) /\ Le(voltage, 15000)), "Voltage outside IEEE 1584-2018 range")
    \o When(Falsy(boltedFaultKA) \/ Le(boltedFaultKA, 0), "Valid bolted fault current required")
    \o When(Falsy(workingDistance) \/ Le(workingDistance, 0), "Working distance not specified")
    \o When(Falsy(arcDuration) \/ Le(arcDuration, 0),
            "Arc duration (clearing time) not specified")

\* the fallback estimate of the incident energy, in hundredths of cal/cm2:
\* (arcingCurrent * voltage * arcDuration) / (4.184 * (workingDistance / 1000)^2)
SimplifiedIncidentEnergy(arcingCurrent, voltage, workingDistance, arcDuration) ==
    LET d2 == Max(1, Div(Mul(workingDistance, workingDistance), 1000))
    IN  Div(Mul(Div(Mul(Mul(arcingCurrent, voltage), arcDuration), d2), 100), 4184)

\* the fallback's ppeCategory
SimplifiedCategory(incidentEnergy) ==
    IF Le(incidentEnergy, 120) THEN NumberValue(0)
    ELSE IF Le(incidentEnergy, 400) THEN NumberValue(1)
    ELSE IF Le(incidentEnergy, 800) THEN NumberValue(2)
    ELSE IF Le(incidentEnergy, 2500) THEN NumberValue(3)
    ELSE IF Le(incidentEnergy, 4000) THEN NumberValue(4)
    ELSE StringValue(">4")

\* a calculateArcFlash whose record of an evaluated bus carries no PPE selection, as
\* if generatePPEReport were never consulted
ArcFlashOfBusWithoutPPE(scResult, params, arcFlashModule) ==
    LET workingDistance == Or(params.workingDistance, DefaultWorkingDistance)
        arcDuration == Or(params.arcDuration, DefaultArcDuration)
        boltedFaultKA == Or(scResult.faultCurrentsKA.threePhaseWithMotors,
                            scResult.faultCurrentsKA.threePhase)
        voltage == scResult.voltage
        missingFields == MissingFields(voltage, boltedFaultKA, workingDistance, arcDuration)
        arcingCurrent == Scale(boltedFaultKA, 85, 100)
        incidentEnergy == SimplifiedIncidentEnergy(arcingCurrent, voltage,
                                                   workingDistance, arcDuration)
    IN  [busId |-> scResult.busId, busName |-> scResult.busName,
         voltage |-> voltage, boltedFaultCurrent |-> boltedFaultKA,
         applicable |-> missingFields = <<>>, evaluated |-> missingFields = <<>>,
         status |-> IF missingFields = <<>> THEN "Evaluated" ELSE "Not Evaluated",
         missingFields |-> missingFields,
         method |-> IF missingFields = <<>> THEN "Simplified Empirical" ELSE "",
         arcingCurrent |-> IF missingFields = <<>> THEN arcingCurrent ELSE Undefined,
         incidentEnergy |-> IF missingFields = <<>> THEN incidentEnergy ELSE Undefined,
         incidentEnergyCalCm2 |-> Undefined,
         arcFlashBoundary |-> IF missingFields = <<>> THEN workingDistance ELSE Undefined,
         ppe |-> Null,
         parameters |-> Null]

\* the record of one bus; a property a branch does not set is Undefined, Null or ""
ArcFlashOfBus(scResult, params, arcFlashModule) ==
    LET workingDistance == Or(params.workingDistance, DefaultWorkingDistance)
        arcDuration == Or(params.arcDuration, DefaultArcDuration)
        boltedFaultKA == Or(scResult.faultCurrentsKA.threePhaseWithMotors,
                            scResult.faultCurrentsKA.threePhase)
        voltage == scResult.voltage
        missingFields == MissingFields(voltage, boltedFaultKA, workingDistance, arcDuration)
        base == [busId |-> scResult.busId, busName |-> scResult.busName,
                 voltage |-> voltage, boltedFaultCurrent |-> boltedFaultKA]
        parameters == [workingDistance |-> workingDistance, arcDuration |-> arcDuration]
    IN  IF missingFields # <<>>
        THEN base @@ [applicable |-> FALSE, evaluated |-> FALSE, status |-> "Not Evaluated",
                      missingFields |-> missingFields, method |-> "",
                      arcingCurrent |-> Undefined, incidentEnergy |-> Undefined,
                      incidentEnergyCalCm2 |-> Undefined, arcFlashBoundary |-> Undefined,
                      ppe |-> Null, parameters |-> Null]
        ELSE IF arcFlashModule
        THEN LET equipmentGap == IF voltage < 1000 THEN 32 ELSE 104
                 arcFlash == calculateArcFlashIEEE1584_2018(voltage, boltedFaultKA,
                                 workingDistance, arcDuration, equipmentGap)
             IN  base @@ [applicable |-> TRUE, evaluated |-> TRUE, status |-> "Evaluated",
                          missingFields |-> <<>>, method |-> "IEEE 1584-2018",
                          arcingCurrent |-> arcFlash.arcingCurrent,
                          incidentEnergy |-> arcFlash.incidentEnergy,
                          incidentEnergyCalCm2 |-> arcFlash.incidentEnergyCalCm2,
                          arcFlashBoundary |-> arcFlash.arcFlashBoundary,
                          ppe |-> Some(generatePPEReport(arcFlash)),
                          parameters |-> Some(parameters)]
        ELSE LET arcingCurrent == Scale(boltedFaultKA, 85, 100)
                 incidentEnergy == SimplifiedIncidentEnergy(arcingCurrent, voltage,
                                       workingDistance, arcDuration)
             IN  base @@ [applicable |-> TRUE, evaluated |-> TRUE,
                          status |-> "Evaluated (Simplified)",
                          missingFields |-> <<>>, method |-> "Simplified Empirical",
                          arcingCurrent |-> arcingCurrent,
                          incidentEnergy |-> incidentEnergy,
                          incidentEnergyCalCm2 |-> Undefined,
                          arcFlashBoundary |->
                              IF incidentEnergy = Huge THEN Huge
                              ELSE Div(Mul(Sqrt(Div(Mul(incidentEnergy, 100), 120)),
                                           workingDistance), 10),
                          ppe |-> Some([category |-> SimplifiedCategory(incidentEnergy),
                                        arcRating |-> Max(400, incidentEnergy),
                                        incidentEnergy |-> Undefined,
                                        warning |-> ""]),
                          parameters |-> Some(parameters)]

\* a calculateArcFlash in which one bus that cannot be evaluated would leave every
\* bus of the run unevaluated
calculateArcFlashAllOrNothing(shortCircuit, params, arcFlashModule) ==
    LET records == [b \in DOMAIN shortCircuit |->
                        ArcFlashOfBus(shortCircuit[b], params, arcFlashModule)]
    IN  IF \A b \in DOMAIN records : records[b].evaluated THEN records
        ELSE [b \in DOMAIN records |->
                [records[b] EXCEPT !.evaluated = FALSE, !.applicable = FALSE,
                                   !.status = "Not Evaluated"]]


\* calculateArcFlash(shortCircuitResults)
calculateArcFlash(shortCircuit, params, arcFlashModule) ==
    [b \in DOMAIN shortCircuit |-> ArcFlashOfBus(shortCircuit[b], params, arcFlashModule)]

\* the assumptions calculateArcFlash adds: one per evaluated bus
ArcFlashAssumptions(arcFlash) ==
    Flatten([b \in DOMAIN arcFlash |->
        When(arcFlash[b].evaluated,
             Assumption("Arc Flash", 0,
                        IF arcFlash[b].method = "IEEE 1584-2018"
                        THEN "Working distance, arc duration, equipment"
                        ELSE "Simplified calculation used"))])

-----------------------------------------------------------------------------
(* persistResults and ResultsStore.saveResults *)

\* Math.max(...values) and Math.min(...values); of no value: -Infinity and +Infinity
RECURSIVE MaxOf(_)
MaxOf(values) ==
    IF values = <<>> THEN -Huge ELSE Max(Head(values), MaxOf(Tail(values)))

RECURSIVE MinOf(_)
MinOf(values) ==
    IF values = <<>> THEN Huge ELSE Min(Head(values), MinOf(Tail(values)))

\* the results object persistResults builds (the timestamp is left out)
BuildResults(p, st) ==
    LET topology == st.topology[1]
        shortCircuit == st.shortCircuit[1]
        voltageDrop == st.voltageDrop[1]
        arcFlash == st.arcFlash[1]
        applicable == SelectSeq(arcFlash, LAMBDA r : r.applicable)
    IN  [projectData |-> p,
         calculationLog |-> st.calculationLog,
         assumptions |-> st.assumptions,
         topology |->
            [buses |-> [b \in DOMAIN topology.busSystem |->
                          [id |-> topology.busSystem[b].id,
                           name |-> topology.busSystem[b].name,
                           voltage |-> topology.busSystem[b].voltage,
                           type |-> topology.busSystem[b].type]],
             connections |-> topology.connections],
         thevenin |-> st.thevenin,
         shortCircuit |-> st.shortCircuit,
         motorContribution |-> st.motorContribution,
         voltageDrop |-> st.voltageDrop,
         arcFlash |-> st.arcFlash,
         summary |->
            [maxFaultCurrent |->
                MaxOf([b \in DOMAIN shortCircuit |-> shortCircuit[b].faultCurrentsKA.threePhase]),
             minFaultCurrent |->
                MinOf([b \in DOMAIN shortCircuit |-> shortCircuit[b].faultCurrentsKA.threePhase]),
             maxVoltageDropPercent |->
                MaxOf([b \in DOMAIN voltageDrop |-> Or(voltageDrop[b].voltageDropPercent, 0)]),
             maxIncidentEnergy |->
                MaxOf([b \in DOMAIN applicable |-> Or(applicable[b].incidentEnergy, 0)])]]

\* what saveResults(results) leaves in localStorage when both setItem calls succeed
saveResults(results) ==
    [results |-> results,
     metadata |-> [hasShortCircuit |-> results.shortCircuit # Null,
                   hasVoltageDrop |-> results.voltageDrop # Null,
                   hasArcFlash |-> results.arcFlash # Null,
                   hasMotorContribution |-> results.motorContribution # Null,
                   busCount |-> Len(results.topology.buses)]]

-----------------------------------------------------------------------------
(* The entry points, stage by stage *)

\* the stages an entry point goes through, in order, for project p
Stages(e, p) ==
    IF e = "runAllAnalysis"
    THEN <<"validate", "topology", "thevenin", "shortCircuit">>
         \o (IF hasMotors(p) THEN <<"motor">> ELSE <<>>)
         \o <<"voltageDrop", "arcFlash", "persist">>
    ELSE IF e = "runShortCircuitAnalysis"
    THEN <<"validate", "topology", "thevenin", "shortCircuit">>
         \o (IF hasMotors(p) THEN <<"motor">> ELSE <<>>)
    ELSE IF e = "runVoltageDropAnalysis"
    THEN <<"validate", "topology", "voltageDrop">>
    ELSE <<"validate", "topology", "thevenin", "shortCircuit", "arcFlash">>

\* the stage after stage s, "return" after the last one
StageAfter(e, p, s) ==
    LET stages == Stages(e, p)
        i == CHOOSE k \in DOMAIN stages : stages[k] = s
    IN  IF i = Len(stages) THEN "return" ELSE stages[i + 1]

\* the first log entry of an entry point
FirstLog(e) ==
    IF e = "runAllAnalysis" THEN "Starting unified calculation pipeline"
    ELSE IF e = "runShortCircuitAnalysis" THEN "Running short circuit analysis"
    ELSE IF e = "runVoltageDropAnalysis" THEN "Running voltage drop analysis"
    ELSE "Running arc flash analysis"

\* the 'Step n: ...' entry runAllAnalysis logs before a stage; the other entry
\* points log none
StepLog(e, text) == When(e = "runAllAnalysis", Msg(0, text))

\* a catch block that would hand back the error together with a shortCircuit property
FailureWithResults(e, log, error) ==
    [success |-> FALSE, error |-> error, log |-> log, shortCircuit |-> <<>>]

\* the value a catch block returns; runAllAnalysis logs the error first
Failure(e, log, error) ==
    LET final == log \o When(e = "runAllAnalysis", Msg(0, "ERROR: " \o error.text))
    IN  [success |-> FALSE, error |-> error, log |-> final]

\* an entry point that would write to the results store as soon as it is called
StartRunSavingFirst(p, e) ==
    /\ pc = "idle"
    /\ pc' = "validate"
    /\ entry' = e
    /\ projectData' = Some(p)
    /\ state' = [FreshState EXCEPT !.calculationLog = <<Msg(0, FirstLog(e))>>]
    /\ store' = Some([results |-> Null, metadata |-> Null])
    /\ UNCHANGED <<history, call, env, ret, consoleWarn>>

\* the entry point is called: reset(), this.projectData = projectData, first log entry
StartRun(p, e) ==
    /\ pc = "idle"
    /\ pc' = "validate"
    /\ entry' = e
    /\ projectData' = Some(p)
    /\ state' = [FreshState EXCEPT !.calculationLog = <<Msg(0, FirstLog(e))>>]
    /\ UNCHANGED <<history, call, env, ret, store, consoleWarn>>

\* validateInputs and the throw that follows an invalid result
Validate ==
    /\ pc = "validate"
    /\ LET p == projectData[1]
           validation == validateInputs(p)
           log == state.calculationLog \o StepLog(entry, "Step 1: Input validation")
                    \o WarningEntries(validation.warnings)
           st == [state EXCEPT !.calculationLog = log,
                               !.assumptions = @ \o validation.assumptions]
           error == [text |-> "Input validation failed",
                     errors |-> IF entry \in {"runAllAnalysis", "runShortCircuitAnalysis"}
                                THEN validation.errors ELSE <<>>]
       IN  IF validation.valid
           THEN /\ state' = [st EXCEPT !.validated = (entry = "runAllAnalysis")]
                /\ pc' = "topology"
                /\ ret' = ret
           ELSE /\ ret' = Some(Failure(entry, log, error))
                /\ state' = [st EXCEPT !.calculationLog = ret'[1].log]
                /\ pc' = "done"
    /\ UNCHANGED <<history, call, env, entry, projectData, store, consoleWarn>>

\* buildTopology: buildFromProject (which ends with toBusSystem) and validateTopology
BuildTopology ==
    /\ pc = "topology"
    /\ LET p == projectData[1]
           topo == buildFromProject(p)
           validation == validateTopology(topo)
           log == state.calculationLog \o StepLog(entry, "Step 2: Building topology")
           error == [text |-> "Topology validation failed", errors |-> validation.errors]
       IN  /\ consoleWarn' = consoleWarn \o toBusSystemWarnings(topo)
           /\ IF validation.errors = <<>>
              THEN /\ state' =
                        [state EXCEPT
                            !.calculationLog = log \o WarningEntries(validation.warnings),
                            !.assumptions = @ \o
                                [i \in DOMAIN validation.warnings |->
                                    Assumption("Topology", validation.warnings[i].idx,
                                               validation.warnings[i].text)],
                            !.topology = Some([buses |-> topo.buses,
                                               components |-> topo.components,
                                               connections |-> topo.connections,
                                               busSystem |-> toBusSystem(topo)])]
                   /\ pc' = StageAfter(entry, p, "topology")
                   /\ ret' = ret
              ELSE /\ ret' = Some(Failure(entry,
                                    logStep(log, Msg(0, "ERROR: " \o error.text)), error))
                   /\ state' = [state EXCEPT !.calculationLog = ret'[1].log]
                   /\ pc' = "done"
    /\ UNCHANGED <<history, call, env, entry, projectData, store>>

\* a Thevenin step that starts the assumption ledger over and writes its log
\* entry at the front
TheveninRewritingLedger ==
    /\ pc = "thevenin"
    /\ state' = [state EXCEPT
                    !.calculationLog =
                        StepLog(entry, "Step 3: Calculating Thevenin equivalents") \o @,
                    !.assumptions = <<>>,
                    !.thevenin =
                        Some(calculateTheveninEquivalents(state.topology[1].busSystem))]
    /\ pc' = StageAfter(entry, projectData[1], "thevenin")
    /\ UNCHANGED <<history, call, env, entry, projectData, ret, store, consoleWarn>>

Thevenin ==
    /\ pc = "thevenin"
    /\ state' = [state EXCEPT
                    !.calculationLog =
                        @ \o StepLog(entry, "Step 3: Calculating Thevenin equivalents"),
                    !.thevenin =
                        Some(calculateTheveninEquivalents(state.topology[1].busSystem))]
    /\ pc' = StageAfter(entry, projectData[1], "thevenin")
    /\ UNCHANGED <<history, call, env, entry, projectData, ret, store, consoleWarn>>

ShortCircuit ==
    /\ pc = "shortCircuit"
    /\ state' = [state EXCEPT
                    !.calculationLog = @ \o StepLog(entry, "Step 4: Short circuit analysis"),
                    !.shortCircuit =
                        Some(calculateShortCircuit(state.topology[1].busSystem,
                                                   state.thevenin[1]))]
    /\ pc' = StageAfter(entry, projectData[1], "shortCircuit")
    /\ UNCHANGED <<history, call, env, entry, projectData, ret, store, consoleWarn>>

\* calculateMotorContribution followed by integrateMotorContribution
MotorContribution ==
    /\ pc = "motor"
    /\ LET p == projectData[1]
           motorData == calculateMotorContribution(p, env.motorModule)
       IN  state' = [state EXCEPT
                !.calculationLog =
                    @ \o StepLog(entry, "Step 5: Motor contribution analysis")
                      \o IntegrateLog(state.shortCircuit[1], motorData),
                !.assumptions =
                    @ \o (IF env.motorModule THEN <<>>
                          ELSE [i \in DOMAIN motorData.motors |->
                                  Assumption("Motor Contribution", 0,
                                             "Motor X/R assumed 15 at locked rotor")])
                      \o <<Assumption("Motor Contribution", 0,
                                      "Motors modeled as parallel current sources")>>,
                !.motorContribution = Some(motorData),
                !.shortCircuit =
                    Some(integrateMotorContribution(state.shortCircuit[1], motorData))]
    /\ pc' = StageAfter(entry, projectData[1], "motor")
    /\ UNCHANGED <<history, call, env, entry, projectData, ret, store, consoleWarn>>

VoltageDrop ==
    /\ pc = "voltageDrop"
    /\ LET voltageDrop == calculateVoltageDrop(state.topology[1].busSystem)
       IN  state' = [state EXCEPT
                !.calculationLog = @ \o StepLog(entry, "Step 6: Voltage drop analysis"),
                !.assumptions = @ \o VoltageDropAssumptions(voltageDrop),
                !.voltageDrop = Some(voltageDrop)]
    /\ pc' = StageAfter(entry, projectData[1], "voltageDrop")
    /\ UNCHANGED <<history, call, env, entry, projectData, ret, store, consoleWarn>>

ArcFlash ==
    /\ pc = "arcFlash"
    /\ LET arcFlash == calculateArcFlash(state.shortCircuit[1],
                                         projectData[1].arcFlashParams, env.arcFlashModule)
       IN  state' = [state EXCEPT
                !.calculationLog = @ \o StepLog(entry, "Step 7: Arc flash analysis"),
                !.assumptions = @ \o ArcFlashAssumptions(arcFlash),
                !.arcFlash = Some(arcFlash)]
    /\ pc' = StageAfter(entry, projectData[1], "arcFlash")
    /\ UNCHANGED <<history, call, env, entry, projectData, ret, store, consoleWarn>>

\* persistResults; saved says whether localStorage took the two items (saveResults
\* catches the exception of a refused setItem and the orchestrator logs either way)
Persist(saved) ==
    /\ pc = "persist"
    /\ LET log == state.calculationLog \o StepLog(entry, "Step 8: Persisting results")
           results == BuildResults(projectData[1], [state EXCEPT !.calculationLog = log])
       IN  /\ store' = IF env.resultsStore /\ saved THEN Some(saveResults(results))
                       ELSE store
           /\ state' = [state EXCEPT
                            !.calculationLog =
                                log \o When(env.resultsStore,
                                            Msg(0, "Results saved to ResultsStore")),
                            !.results = Some(results)]
    /\ pc' = "return"
    /\ UNCHANGED <<history, call, env, entry, projectData, ret, consoleWarn>>

\* the return statement of the try block
Return ==
    /\ pc = "return"
    /\ LET log == state.calculationLog
                    \o StepLog(entry, "Pipeline completed successfully")
       IN  /\ state' = [state EXCEPT
                            !.calculationLog = log,
                            !.results = IF @ = Null THEN Null
                                        ELSE Some([@[1] EXCEPT !.calculationLog = log])]
           /\ ret' = Some(
                IF entry = "runAllAnalysis"
                THEN [success |-> TRUE, results |-> state'.results[1], log |-> log,
                      assumptions |-> state.assumptions]
                ELSE IF entry = "runShortCircuitAnalysis"
                THEN [success |-> TRUE, shortCircuit |-> state.shortCircuit[1],
                      motorContribution |-> state.motorContribution, log |-> log,
                      assumptions |-> state.assumptions]
                ELSE IF entry = "runVoltageDropAnalysis"
                THEN [success |-> TRUE, voltageDrop |-> state.voltageDrop[1], log |-> log]
                ELSE [success |-> TRUE, arcFlash |-> state.arcFlash[1], log |-> log,
                      assumptions |-> state.assumptions])
    /\ pc' = "done"
    /\ UNCHANGED <<history, call, env, entry, projectData, store, consoleWarn>>

Init ==
    /\ env \in Environments
    /\ pc = "idle"
    /\ entry = ""
    /\ projectData = Null
    /\ state = FreshState
    /\ ret = Null
    /\ store = Null
    /\ consoleWarn = <<>>
    /\ history = <<>>
    /\ call = Null

Next ==
    \/ \E p \in Projects, e \in EntryPoints : StartRun(p, e)
    \/ Validate
    \/ BuildTopology
    \/ Thevenin
    \/ ShortCircuit
    \/ MotorContribution
    \/ VoltageDrop
    \/ ArcFlash
    \/ \E saved \in BOOLEAN : Persist(saved)
    \/ Return

Spec == Init /\ [][Next]_vars

-----------------------------------------------------------------------------
(* Several invocations on the one orchestrator of the page *)

\* The entry points are async functions without an await: a call runs to its return
\* statement before anything else of the page runs, so a second invocation starts
\* only when the one before it has returned.

\* how many invocations a behaviour makes
MaxRuns == 2

\* the projects of the invocations below: a valid one with a motor that names no
\* bus, a valid one with a motor on bus 1, and an invalid one
RerunProjects ==
    {[voltage |-> 480, components |-> <<UtilityKA, MotorNoBus>>,
      arcFlashParams |-> [workingDistance |-> 450, arcDuration |-> 2000]],
     [voltage |-> 480, components |-> <<UtilityKA, MotorBus1>>,
      arcFlashParams |-> [workingDistance |-> 450, arcDuration |-> 2000]],
     [voltage |-> 0, components |-> <<>>,
      arcFlashParams |-> [workingDistance |-> Undefined, arcDuration |-> Undefined]]}

\* an entry point that would go on with the state the invocation before it left
ReenterKeepingState(p, e) ==
    /\ pc = "done"
    /\ Len(history) < MaxRuns - 1
    /\ history' = Append(history, ret[1])
    /\ pc' = "validate"
    /\ entry' = e
    /\ projectData' = Some(p)
    /\ state' = [state EXCEPT !.calculationLog = Append(@, Msg(0, FirstLog(e)))]
    /\ ret' = Null
    /\ UNCHANGED <<call, env, store, consoleWarn>>

\* an entry point is called on the orchestrator that has returned from an invocation:
\* reset(), this.projectData = projectData, first log entry
Reenter(p, e) ==
    /\ pc = "done"
    /\ Len(history) < MaxRuns - 1
    /\ history' = Append(history, ret[1])
    /\ pc' = "validate"
    /\ entry' = e
    /\ projectData' = Some(p)
    /\ state' = [FreshState EXCEPT !.calculationLog = <<Msg(0, FirstLog(e))>>]
    /\ ret' = Null
    /\ UNCHANGED <<call, env, store, consoleWarn>>

ReentryNext ==
    \/ \E p \in RerunProjects, e \in EntryPoints : StartRun(p, e)
    \/ \E p \in RerunProjects, e \in EntryPoints : Reenter(p, e)
    \/ Validate
    \/ BuildTopology
    \/ Thevenin
    \/ ShortCircuit
    \/ MotorContribution
    \/ VoltageDrop
    \/ ArcFlash
    \/ \E saved \in BOOLEAN : Persist(saved)
    \/ Return

ReentrySpec == Init /\ [][ReentryNext]_vars

-----------------------------------------------------------------------------
(* Library functions and single steps called on their own *)

\* exact fractions, for the quantities a library function only multiplies and divides
RECURSIVE Gcd(_, _)
Gcd(a, b) == IF b = 0 THEN a ELSE Gcd(b, a % b)

\* n / d in lowest terms, for n >= 0 and d > 0
Quotient(n, d) == LET g == Gcd(n, d) IN [num |-> n \div g, den |-> d \div g]

\* a * b
Product(a, b) == Quotient(a.num * b.num, a.den * b.den)

\* a fraction of milliohms in whole micro-ohms
MicroOhms(q) == Div(Mul(q.num, 1000), q.den)

\* the voltages (V) and impedances (milliohms) the functions are called with
ReferralVoltages == {120, 440, 480, 13200}
ReferralImpedances == {[r |-> 1742, x |-> 17420], [r |-> 10, x |-> 50], [r |-> 500, x |-> 2000]}

referImpedanceBetweenLevelsInverted(impedance, fromVoltage, toVoltage) ==
    LET ratio == Quotient(fromVoltage, toVoltage)
        factor == Product(ratio, ratio)
        r == Product(Quotient(impedance.r, 1), factor)
        x == Product(Quotient(impedance.x, 1), factor)
    IN  [r |-> r, x |-> x,
         magnitude |-> Hypot(MicroOhms(r), MicroOhms(x)),
         fromVoltage |-> fromVoltage, toVoltage |-> toVoltage, ratio |-> ratio]

\* referImpedanceBetweenLevels(impedance, fromVoltage, toVoltage); r and x are exact
\* fractions of milliohms, magnitude is in micro-ohms
referImpedanceBetweenLevels(impedance, fromVoltage, toVoltage) ==
    LET ratio == Quotient(toVoltage, fromVoltage)
        factor == Product(ratio, ratio)
        r == Product(Quotient(impedance.r, 1), factor)
        x == Product(Quotient(impedance.x, 1), factor)
    IN  [r |-> r, x |-> x,
         magnitude |-> Hypot(MicroOhms(r), MicroOhms(x)),
         fromVoltage |-> fromVoltage, toVoltage |-> toVoltage, ratio |-> ratio]

\* a caller refers an impedance from one voltage level to another
CallReferImpedance(impedance, fromVoltage, toVoltage) ==
    /\ call' = Some([fn |-> "referImpedanceBetweenLevels",
                     impedance |-> impedance, fromVoltage |-> fromVoltage,
                     toVoltage |-> toVoltage,
                     result |-> referImpedanceBetweenLevels(impedance, fromVoltage, toVoltage)])
    /\ UNCHANGED <<env, pc, entry, projectData, state, ret, store, consoleWarn, history>>

\* calculateFirstCycleAsymmetricalMultiplier(xrRatio), for X/R in hundredths, in
\* ten-thousandths: Math.max(1.0, Math.min(1.732, multiplier)), NaN for a NaN multiplier
calculateFirstCycleAsymmetricalMultiplier(xrRatio) ==
    LET multiplier == FirstCycleFactor(xrRatio)
    IN  IF ~IsNum(multiplier) THEN NaN ELSE Max(10000, Min(17320, multiplier))

\* the X/R ratios (hundredths) the multiplier is asked for: 0 and every quarter up to
\* MaxXRStep quarters
MaxXRStep == 120
XRValues == {25 * k : k \in 0..MaxXRStep}

\* a caller asks the library for the first-cycle multiplier of an X/R ratio
CallFirstCycleMultiplier(xrRatio) ==
    /\ call' = Some([fn |-> "calculateFirstCycleAsymmetricalMultiplier",
                     xrRatio |-> xrRatio,
                     result |-> calculateFirstCycleAsymmetricalMultiplier(xrRatio)])
    /\ UNCHANGED <<env, pc, entry, projectData, state, ret, store, consoleWarn, history>>

\* a 480 V bus of its own, and the record calculateTheveninEquivalents gives it when
\* its total impedance is r + jx (micro-ohms)
LoneBus == <<[id |-> 1, name |-> "Source", voltage |-> 480]>>
LoneThevenin(r, x) ==
    <<[busId |-> 1, busName |-> "Source", voltage |-> 480,
       r |-> r, x |-> x, z |-> Hypot(r, x),
       xr |-> Div(Mul(x, 100), Or(r, Epsilon))]>>

\* the total impedances the lone bus is given: no resistance or 10 milliohms, and a
\* reactance of 0 to MaxXRStep steps of 2.5 milliohms
LoneResistances == {0, 10000}
LoneReactances == {2500 * k : k \in 0..MaxXRStep}

\* the orchestrator's short-circuit step on the lone bus
CallCalculateShortCircuit(r, x) ==
    /\ call' = Some([fn |-> "calculateShortCircuit",
                     thevenin |-> LoneThevenin(r, x),
                     result |-> calculateShortCircuit(LoneBus, LoneThevenin(r, x))])
    /\ UNCHANGED <<env, pc, entry, projectData, state, ret, store, consoleWarn, history>>

\* the transformers whose rating is resolved: 1, 150 or 500 of the tagged or untagged
\* unit, secondary absent or 0.24, 1, 1.001 or 13.8 kV
RatedTransformers ==
    {[NoComp EXCEPT !.type = "transformer", !.power = power, !.powerUnit = powerUnit,
                    !.impedance = 575, !.primaryV = 34500, !.secondaryV = secondaryV] :
        power \in {1, 150, 500}, powerUnit \in {"kVA", "MVA", ""},
        secondaryV \in {Undefined, 240, 1000, 1001, 13800}}

\* a caller resolves the rated power of a transformer
CallGetTransformerPowerMVA(transformer) ==
    /\ call' = Some([fn |-> "getTransformerPowerMVA",
                     transformer |-> transformer,
                     result |-> getTransformerPowerMVA(transformer),
                     warned |-> PowerUnitDefaulted(transformer)])
    /\ UNCHANGED <<env, pc, entry, projectData, state, ret, store, consoleWarn, history>>

\* transformers of each rating band (0.5, 1.5, 3, 7.5 and 15 MVA, 0.48 kV secondary,
\* 5.75 %Z), without R/X and with R/X 0.07
BandTransformers ==
    {[NoComp EXCEPT !.type = "transformer", !.power = power, !.powerUnit = "kVA",
                    !.impedance = 575, !.primaryV = 13800, !.secondaryV = 480, !.rx = rx] :
        power \in {500, 1500, 3000, 7500, 15000}, rx \in {Undefined, 70}}

\* toBusSystem works out what a transformer adds to the impedance of its secondary bus
CallTransformerImpedance(transformer) ==
    /\ call' = Some([fn |-> "toBusSystem.transformer",
                     transformer |-> transformer,
                     powerKVA |-> getTransformerPowerMVA(transformer),
                     result |-> TransformerImpedance(transformer)])
    /\ UNCHANGED <<env, pc, entry, projectData, state, ret, store, consoleWarn, history>>

\* utility sources at 13.2 and 13.8 kV, by short-circuit power (MVA) and by fault
\* current (kA)
UtilitySources ==
    {[NoComp EXCEPT !.type = "utility", !.voltage = 13200, !.shortCircuitMVA = mva] :
        mva \in {100, 160, 800}}
    \cup {[NoComp EXCEPT !.type = "utility", !.voltage = 13200, !.faultCurrent = kA] :
            kA \in {7, 35}}
    \cup {[NoComp EXCEPT !.type = "utility", !.voltage = 13800, !.faultCurrent = 41],
          [NoComp EXCEPT !.type = "utility", !.voltage = 13800, !.shortCircuitMVA = 980]}

\* toBusSystem works out the impedance of a utility on a bus that has nothing else,
\* and the Thevenin and short-circuit steps follow
CallUtilityImpedance(comp) ==
    /\ LET voltage == comp.voltage
           impedance == UtilityImpedance(comp, voltage)
           thevenin == <<[LoneThevenin(impedance.r, impedance.x)[1] EXCEPT !.voltage = voltage]>>
           bus == <<[LoneBus[1] EXCEPT !.voltage = voltage]>>
       IN  call' = Some([fn |-> "toBusSystem.utility",
                         comp |-> comp,
                         zSource |-> UtilityZSource(comp, voltage),
                         impedance |-> impedance,
                         result |-> calculateShortCircuit(bus, thevenin)])
    /\ UNCHANGED <<env, pc, entry, projectData, state, ret, store, consoleWarn, history>>

\* getIECVoltageFactor(voltage, factorType), in hundredths: IEC_VOLTAGE_FACTORS by band
getIECVoltageFactor(voltage, factorType) ==
    IF voltage <= 1000 THEN (IF factorType = "cmax" THEN 105 ELSE 95)
    ELSE IF voltage >= 1000 /\ voltage < 35000 THEN (IF factorType = "cmax" THEN 110 ELSE 100)
    ELSE IF voltage >= 35000 /\ voltage <= 230000
    THEN (IF factorType = "cmax" THEN 110 ELSE 100)
    ELSE 100

\* calculateIECImpedanceCorrection(voltage, impedanceOhm, faultType): the factor and
\* voltage * cFactor / sqrt(3), in V
calculateIECImpedanceCorrection(voltage, faultType) ==
    LET cFactor == getIECVoltageFactor(voltage, IF faultType = "max" THEN "cmax" ELSE "cmin")
    IN  [cFactor |-> cFactor, correctedVoltage |-> (voltage * cFactor * 10) \div 1732]

\* calculateIECPeakCurrent(symmetricalCurrent, xrRatio): kappa = 1.02 + 0.98 e^(-3/(X/R))
\* in ten-thousandths, and kappa * sqrt(2) * symmetricalCurrent
calculateIECPeakCurrent(symmetricalCurrent, xrRatio) ==
    LET kappa == 10200 + (98 * ExpNeg(300000 \div xrRatio)) \div 100
    IN  [kappa |-> kappa,
         peakCurrent |-> TimesRatio(TimesRatio(symmetricalCurrent, 14142), kappa)]

\* calculateIECShortCircuit({voltage, impedanceR, impedanceX, faultType}); impedances in
\* micro-ohm, currents in A, X/R in hundredths
calculateIECShortCircuit(voltage, impedanceR, impedanceX, faultType) ==
    LET correction == calculateIECImpedanceCorrection(voltage, faultType)
        impedanceTotal == Hypot(impedanceR, impedanceX)
        xrRatio == IF impedanceR > 0 THEN (impedanceX * 100) \div impedanceR ELSE 2000
        initialCurrent == Div(Mul(Div(Mul(correction.correctedVoltage, 1000), 1732), 1000),
                              impedanceTotal \div 1000)
        peak == calculateIECPeakCurrent(initialCurrent, xrRatio)
    IN  [standard |-> "IEC 60909-0",
         voltageFactor |-> correction.cFactor,
         correctedVoltage |-> correction.correctedVoltage,
         symmetricalCurrent |-> initialCurrent,
         peakCurrent |-> peak.peakCurrent,
         kappa |-> peak.kappa,
         xrRatio |-> xrRatio,
         impedanceTotal |-> impedanceTotal]

\* the voltages (V), impedances (micro-ohm) and study kinds of the IEC calls
IECVoltages == {400, 690, 1000, 13800, 35000, 110000, 300000}
IECImpedances == {[r |-> 100000, x |-> 1000000], [r |-> 0, x |-> 500000]}

\* a caller that selected IEC asks for the short-circuit current
CallIECShortCircuit(voltage, impedance, faultType) ==
    /\ call' = Some([fn |-> "calculateIECShortCircuit",
                     voltage |-> voltage, impedance |-> impedance, faultType |-> faultType,
                     result |-> calculateIECShortCircuit(voltage, impedance.r, impedance.x,
                                                         faultType)])
    /\ UNCHANGED <<env, pc, entry, projectData, state, ret, store, consoleWarn, history>>

\* buildFromProject called on its own with chains that make every kind of bus:
\* a transformer's secondary bus, a cable's named bus (new, met before, or the
\* source bus itself) and a cable's bus made by createsBus
MaxChain == 2
ChainComponents ==
    {UtilityKA, XfmrTagged, CableOK, MotorNoBus,
     [CableOK EXCEPT !.toBus = "MCC"],
     [CableOK EXCEPT !.toBus = "Source"],
     [CableOK EXCEPT !.createsBus = TRUE]}
ChainLists == UNION {[1..n -> ChainComponents] : n \in 0..MaxChain}

CallBuildFromProject(components) ==
    LET topo == buildFromProject([voltage |-> 13800, components |-> components])
    IN  /\ call' = Some([fn |-> "buildFromProject", components |-> components,
                         buses |-> topo.buses, connections |-> topo.connections,
                         validation |-> validateTopology(topo)])
        /\ UNCHANGED <<env, pc, entry, projectData, state, ret, store, consoleWarn, history>>

\* utilities specified by every combination of the three fields validateInputs
\* accepts, and by none
SpecifiedUtilities ==
    {[NoComp EXCEPT !.type = "utility", !.voltage = voltage, !.faultCurrent = faultCurrent,
                    !.shortCircuitMVA = shortCircuitMVA, !.isc = isc] :
        voltage \in {Undefined, 13800}, faultCurrent \in {Undefined, 10},
        shortCircuitMVA \in {Undefined, 250}, isc \in {Undefined, -5, 0, 10, 5000}}

\* a project of one utility goes through validateInputs and, when valid, through
\* buildFromProject and toBusSystem
CallSourceBusImpedance(comp) ==
    LET p == [voltage |-> 13800, components |-> <<comp>>]
        validation == validateInputs(p)
        busSystem == toBusSystem(buildFromProject(p))
    IN  /\ call' = Some([fn |-> "validateInputs.utility", comp |-> comp,
                         valid |-> validation.valid,
                         impedance |-> IF validation.valid THEN busSystem[1].impedance
                                       ELSE [r |-> Undefined, x |-> Undefined]])
        /\ UNCHANGED <<env, pc, entry, projectData, state, ret, store, consoleWarn, history>>

LibraryNext ==
    \/ \E impedance \in ReferralImpedances, fromVoltage \in ReferralVoltages,
          toVoltage \in ReferralVoltages :
            CallReferImpedance(impedance, fromVoltage, toVoltage)
    \/ \E xrRatio \in XRValues : CallFirstCycleMultiplier(xrRatio)
    \/ \E transformer \in RatedTransformers : CallGetTransformerPowerMVA(transformer)
    \/ \E transformer \in BandTransformers : CallTransformerImpedance(transformer)
    \/ \E comp \in UtilitySources : CallUtilityImpedance(comp)
    \/ \E voltage \in IECVoltages, impedance \in IECImpedances, faultType \in {"max", "min"} :
            CallIECShortCircuit(voltage, impedance, faultType)
    \/ \E components \in ChainLists : CallBuildFromProject(components)
    \/ \E comp \in SpecifiedUtilities : CallSourceBusImpedance(comp)
    \/ \E r \in LoneResistances, x \in LoneReactances : CallCalculateShortCircuit(r, x)

LibrarySpec == Init /\ [][LibraryNext]_vars

-----------------------------------------------------------------------------
(* Properties *)

\* the run has returned
Returned == pc = "done" /\ ret # Null

\* the buses on the way from the source down to bus b, b included: b, then the bus
\* its incoming connection starts at, and so on
RECURSIVE PathTo(_, _, _)
PathTo(connections, b, fuel) ==
    LET incoming == SelectSeq(connections, LAMBDA c : c.toBus = b)
    IN  IF incoming = <<>> \/ fuel = 0 THEN <<b>>
        ELSE Append(PathTo(connections, incoming[1].fromBus, fuel - 1), b)

\* an impedance referred from its native voltage to the voltage of a bus:
\* z * (vBus / vNative)^2
Referred(z, vBus, vNative) ==
    LET ratio == Div(Mul(vBus, 10000), vNative)
    IN  IF vBus = vNative THEN z
        ELSE [r |-> TimesRatio(TimesRatio(z.r, ratio), ratio),
              x |-> TimesRatio(TimesRatio(z.x, ratio), ratio)]

RECURSIVE SumZ(_)
SumZ(zs) == IF zs = <<>> THEN [r |-> 0, x |-> 0] ELSE AddZ(Head(zs), SumZ(Tail(zs)))

\* the impedance seen from bus b when everything upstream is summed: what the
\* components put on each bus of the path, referred to the voltage of b
UpstreamImpedance(busSystem, connections, b) ==
    LET path == PathTo(connections, b, Len(busSystem))
    IN  SumZ([k \in DOMAIN path |->
                Referred(busSystem[path[k]].impedance,
                         busSystem[b].voltage, busSystem[path[k]].voltage)])

\* C1: for every bus, the Thevenin R and X are the bus's own impedance plus the
\* impedance of every component upstream of it, each upstream contribution at
\* another voltage first multiplied by (V_bus / V_native)^2.
C1_TheveninSumsUpstream ==
    state.thevenin # Null =>
        \A b \in DOMAIN state.thevenin[1] :
            LET expected == UpstreamImpedance(state.topology[1].busSystem,
                                              state.topology[1].connections, b)
            IN  /\ state.thevenin[1][b].r = expected.r
                /\ state.thevenin[1][b].x = expected.x

\* the positions, in projectData.components, of the motors, in order
MotorPositions(p) ==
    LET positions == [j \in DOMAIN p.components |-> j]
    IN  SelectSeq(positions, LAMBDA j : IsMotor(p.components[j]))

\* the first-cycle currents of the motors the topology attaches to bus b
AttachedFirstCycle(p, topology, motorData, b) ==
    LET positions == MotorPositions(p)
        mine == SelectSeq([i \in DOMAIN positions |-> i],
                          LAMBDA i : topology.components[positions[i]].fromBus = b)
    IN  [k \in DOMAIN mine |-> motorData.motors[mine[k]].contribution.firstCycle]

\* C2: for every bus, the with-motors first-cycle three-phase current is the bolted
\* three-phase current plus the arithmetic sum of the first-cycle currents of all
\* motors attached to that bus.
C2_WithMotorsAddsAttachedMotors ==
    state.motorContribution # Null =>
        \A b \in DOMAIN state.shortCircuit[1] :
            LET fc == state.shortCircuit[1][b].faultCurrentsKA
            IN  fc.threePhaseWithMotors =
                    Add(fc.threePhase,
                        SumSeq(AttachedFirstCycle(projectData[1], state.topology[1],
                                                  state.motorContribution[1], b)))

\* C3: every bus whose voltage is below 208 V or above 15000 V has an arc-flash
\* record with evaluated = false, a non-empty missingFields list and no numeric
\* incident energy.
C3_OutOfRangeNotEvaluated ==
    state.arcFlash # Null =>
        \A b \in DOMAIN state.arcFlash[1] :
            LET r == state.arcFlash[1][b]
            IN  (r.voltage < 208 \/ r.voltage > 15000) =>
                    /\ r.evaluated = FALSE
                    /\ r.missingFields # <<>>
                    /\ r.incidentEnergy = Undefined
                    /\ r.incidentEnergyCalCm2 = Undefined

\* a run whose arc-flash stage has met a bus above 15000 V and a bus below 208 V
C3_OutOfRangeBusesReached ==
    /\ state.arcFlash # Null
    /\ \E b \in DOMAIN state.arcFlash[1] : state.arcFlash[1][b].voltage > 15000
    /\ \E b \in DOMAIN state.arcFlash[1] :
            state.arcFlash[1][b].voltage > 0 /\ state.arcFlash[1][b].voltage < 208

\* the parameter is absent, zero or negative in projectData.arcFlashParams
NotPositive(v) == Falsy(v) \/ Le(v, 0)

\* C4: if the configured working distance or arc duration is absent, zero or
\* negative, every bus's arc-flash record has evaluated = false and lists that
\* parameter in missingFields; no incident energy comes from a substituted value.
C4_MissingParameterNotEvaluated ==
    state.arcFlash # Null =>
        \A b \in DOMAIN state.arcFlash[1] :
            LET r == state.arcFlash[1][b]
                params == projectData[1].arcFlashParams
            IN  /\ NotPositive(params.workingDistance) =>
                        /\ r.evaluated = FALSE
                        /\ "Working distance not specified" \in Range(r.missingFields)
                        /\ r.incidentEnergy = Undefined
                /\ NotPositive(params.arcDuration) =>
                        /\ r.evaluated = FALSE
                        /\ "Arc duration (clearing time) not specified"
                                \in Range(r.missingFields)
                        /\ r.incidentEnergy = Undefined

\* the incident energy of an evaluated record in hundredths of cal/cm2: the module
\* reports it in incidentEnergyCalCm2, the simplified estimate in incidentEnergy
EnergyCal(r) ==
    IF r.method = "IEEE 1584-2018" THEN r.incidentEnergyCalCm2 ELSE r.incidentEnergy

\* C5: whenever a bus's incident energy is above 40 cal/cm2, its PPE result is
\* category 4 together with an explicit overflow warning.
C5_Above40IsCategory4WithWarning ==
    state.arcFlash # Null =>
        \A b \in DOMAIN state.arcFlash[1] :
            LET r == state.arcFlash[1][b]
            IN  (r.evaluated /\ Gt(EnergyCal(r), Category4Max)) =>
                    /\ r.ppe # Null
                    /\ r.ppe[1].category = NumberValue(4)
                    /\ r.ppe[1].warning # ""

\* C6: for every evaluated bus the PPE category is an integer from 0 to 4, selected
\* from the incident energy by the breakpoints 1.2, 4, 8, 25 and 40 cal/cm2 (the
\* breakpoints themselves are left to either side).
C6_CategoryIsIntegerByBreakpoints ==
    state.arcFlash # Null =>
        \A b \in DOMAIN state.arcFlash[1] :
            LET r == state.arcFlash[1][b]
                e == EnergyCal(r)
                category == r.ppe[1].category
            IN  r.evaluated =>
                    /\ r.ppe # Null
                    /\ category.typeof = "number"
                    /\ category.number \in 0..4
                    /\ (Ge(e, 0) /\ Lt(e, 120)) => category.number = 0
                    /\ (Gt(e, 120) /\ Lt(e, 400)) => category.number = 1
                    /\ (Gt(e, 400) /\ Lt(e, 800)) => category.number = 2
                    /\ (Gt(e, 800) /\ Lt(e, 2500)) => category.number = 3
                    /\ (Gt(e, 2500) /\ Lt(e, 4000)) => category.number = 4

\* a numeric property that is present and not positive
NonPositive(v) == v # Undefined /\ Le(v, 0)

\* a component with a non-positive voltage, power, length or impedance, or without a
\* field its kind requires
BadComponent(c) ==
    \/ NonPositive(c.voltage) \/ NonPositive(c.primaryV) \/ NonPositive(c.secondaryV)
    \/ NonPositive(c.power) \/ NonPositive(c.length)
    \/ NonPositive(c.impedance) \/ NonPositive(c.resistance) \/ NonPositive(c.reactance)
    \/ c.type = "cable" /\ Undefined \in {c.length, c.resistance, c.reactance}
    \/ c.type = "transformer" /\ Undefined \in {c.power, c.impedance}
    \/ c.type = "utility" /\ {c.faultCurrent, c.shortCircuitMVA, c.isc} = {Undefined}

\* C7: if any component has a non-positive voltage, power, length or impedance, or
\* lacks a field required for its kind, validation rejects the run before topology
\* construction or any calculation stage executes.
C7_BadComponentRejected ==
    (/\ projectData # Null
     /\ \E i \in DOMAIN projectData[1].components :
            BadComponent(projectData[1].components[i])
     /\ pc # "validate")
        => /\ pc = "done"
           /\ ret[1].success = FALSE
           /\ state.topology = Null

\* C8: when a run aborts on a validation or topology error, the returned value holds
\* no partial results: it has the properties success, error and log and no other.
C8_FailureCarriesNoResults ==
    (Returned /\ ~ret[1].success) => DOMAIN ret[1] = {"success", "error", "log"}

\* a short-circuit run that validation has aborted
C8_AbortedRunReturned ==
    /\ Returned
    /\ ~ret[1].success
    /\ entry = "runShortCircuitAnalysis"
    /\ ret[1].error.errors # <<>>

\* every stage before persistResults has left its result in the state
StagesCompleted ==
    /\ state.validated
    /\ state.topology # Null /\ state.thevenin # Null /\ state.shortCircuit # Null
    /\ state.voltageDrop # Null /\ state.arcFlash # Null
    /\ hasMotors(projectData[1]) => state.motorContribution # Null

\* C9: the results store is written only by the persist step of a run whose stages
\* have all completed, and a run that has failed has written nothing to it.
C9_StoreWrittenOnlyAfterAllStages ==
    /\ [][store' # store => (pc = "persist" /\ StagesCompleted)]_vars
    /\ []((Returned /\ ~ret[1].success) => store = Null)

\* a complete run has written its results to the store
C9_ResultsStored ==
    /\ Returned
    /\ ret[1].success
    /\ store # Null
    /\ store[1].metadata.hasArcFlash

\* the condition is an entry of the returned log or of the returned ledger
Visible(idx, text) ==
    \/ \E j \in DOMAIN ret[1].log :
            ret[1].log[j].idx = idx /\ ret[1].log[j].text \in {text, "WARNING: " \o text}
    \/ /\ "assumptions" \in DOMAIN ret[1]
       /\ \E j \in DOMAIN ret[1].assumptions :
            ret[1].assumptions[j].idx = idx /\ ret[1].assumptions[j].description = text

\* C10: every non-blocking condition raised during a run (plausibility warning,
\* defaulted value, guarded division) is visible in the ledger or log returned to the
\* caller: the validation warnings, the assumptions the run recorded and whatever
\* the run reported on the console.
C10_NonBlockingConditionsReturned ==
    (Returned /\ ret[1].success) =>
        /\ \A i \in DOMAIN consoleWarn : Visible(consoleWarn[i].idx, consoleWarn[i].text)
        /\ \A i \in DOMAIN state.assumptions :
                Visible(state.assumptions[i].idx, state.assumptions[i].description)
        /\ LET warnings == validateInputs(projectData[1]).warnings
           IN  \A i \in DOMAIN warnings : Visible(warnings[i].idx, warnings[i].text)

\* the messages validateInputs has for a plausibility finding: magnitudes that suggest
\* A/kA or V/kV confusion, and a transformer %Z or a cable reactance outside the
\* typical band
PlausibilityTexts ==
    {"Utility: ISC is implausibly high",
     "Utility: Implied fault MVA is very high",
     "Cable: Voltage seems very low",
     "Cable: Reactance is unusually high for LV cable",
     "Cable: Reactance is unusually low",
     "Transformer: Impedance is unusually high",
     "Transformer: Impedance is unusually low",
     "Transformer: Primary voltage seems very high",
     "Transformer: Secondary voltage seems very high"}

\* the plausibility findings validateInputs makes on a project, whichever list it
\* puts them in
PlausibilityFindings(p) ==
    LET validation == validateInputs(p)
        all == validation.errors \o validation.warnings
    IN  SelectSeq(all, LAMBDA m : m.text \in PlausibilityTexts)

\* the project has no violation other than plausibility findings
OnlyPlausibilityFindings(p) ==
    \A m \in Range(validateInputs(p).errors) : m.text \in PlausibilityTexts

\* C11: a plausibility finding (fault current inconsistent with the voltage level,
\* voltage inconsistent with the expected range, %Z or cable reactance outside the
\* typical band) is recorded as a warning of the run and never aborts it: a run whose
\* input has nothing but such findings succeeds, and each finding is a WARNING entry
\* of the returned log.
C11_PlausibilityFindingsOnlyWarn ==
    Returned =>
        LET p == projectData[1]
            findings == PlausibilityFindings(p)
        IN  /\ OnlyPlausibilityFindings(p) => ret[1].success
            /\ \A i \in DOMAIN findings :
                    \E j \in DOMAIN ret[1].log :
                        /\ ret[1].log[j].idx = findings[i].idx
                        /\ ret[1].log[j].text = "WARNING: " \o findings[i].text

\* the arc flash record the run would give bus b if it were the only bus
ArcFlashAlone(b) ==
    calculateArcFlash(<<state.shortCircuit[1][b]>>, projectData[1].arcFlashParams,
                      env.arcFlashModule)[1]

\* C12: a bus being marked arc-flash unevaluated does not abort the run and changes
\* nothing else: the arc flash step leaves the short-circuit results (and the
\* topology, Thevenin and voltage drop results) as they were, a run that has reached
\* the arc flash step does not fail, and the record of every other bus is the record
\* that bus gets on its own.
C12_UnevaluatedBusIsBusScoped ==
    /\ [][pc = "arcFlash" =>
            /\ state'.shortCircuit = state.shortCircuit
            /\ state'.thevenin = state.thevenin
            /\ state'.topology = state.topology
            /\ state'.voltageDrop = state.voltageDrop
            /\ pc' # "done"]_vars
    /\ [](state.arcFlash # Null =>
            /\ Returned => ret[1].success
            /\ DOMAIN state.arcFlash[1] = DOMAIN state.shortCircuit[1]
            /\ \A b \in DOMAIN state.arcFlash[1] : state.arcFlash[1][b] = ArcFlashAlone(b)
            /\ state.results # Null => state.results[1].shortCircuit = state.shortCircuit)

\* a run has returned arc flash records of which one is unevaluated and another one
\* is evaluated
C12_MixedBusesReturned ==
    /\ Returned
    /\ ret[1].success
    /\ state.arcFlash # Null
    /\ \E b1, b2 \in DOMAIN state.arcFlash[1] :
            /\ ~state.arcFlash[1][b1].evaluated
            /\ state.arcFlash[1][b2].evaluated
            /\ state.arcFlash[1][b2].incidentEnergyCalCm2 > 0

\* the first log entries of the four entry points
FirstLogs == {Msg(0, FirstLog(e)) : e \in EntryPoints}

\* C13: each invocation computes on its own fresh RunState.  Invocations on the one
\* orchestrator never overlap; an invocation that follows another starts from the
\* state a new orchestrator has (no topology, no bus record, an empty ledger, a log
\* holding only its own first entry), what it returns holds no log entry of the
\* invocation before it, and the value an earlier invocation returned is never
\* modified.
C13_InvocationsShareNoRunState ==
    /\ [][pc' = "validate" =>
            state' = [FreshState EXCEPT !.calculationLog = <<Msg(0, FirstLog(entry'))>>]]_vars
    /\ [][\A i \in DOMAIN history : i \in DOMAIN history' /\ history'[i] = history[i]]_vars
    /\ [](pc \notin {"idle", "done"} => ret = Null)
    /\ [](Returned =>
            /\ ret[1].log[1] = Msg(0, FirstLog(entry))
            /\ \A j \in DOMAIN ret[1].log : j > 1 => ret[1].log[j] \notin FirstLogs
            /\ state.calculationLog = ret[1].log)

\* a second invocation has returned its results on the orchestrator on which a first
\* one had returned
C13_SecondInvocationReturned ==
    /\ Returned
    /\ ret[1].success
    /\ Len(history) = 1
    /\ Len(history[1].log) > 1
    /\ Len(state.assumptions) > 0

\* the id of the bus a reference names, by its name or by its id; 0 when it names none
NamedBus(buses, ref) ==
    IF getBusByName(buses, ref) # 0 THEN getBusByName(buses, ref)
    ELSE IF \E b \in DOMAIN buses : ToString(buses[b].id) = ref
    THEN CHOOSE b \in DOMAIN buses : ToString(buses[b].id) = ref
    ELSE 0

\* C14: a component that carries an explicit fromBus or toBus is attached to exactly
\* the buses it names, whatever bus the sequential current-bus pointer designates
\* when the component is processed.
C14_ExplicitBusesOverrideChaining ==
    state.topology # Null =>
        LET topology == state.topology[1]
        IN  \A i \in DOMAIN topology.components :
                LET attached == topology.components[i]
                    named == projectData[1].components[i]
                IN  /\ (named.fromBus # "" /\ NamedBus(topology.buses, named.fromBus) # 0) =>
                            attached.fromBus = NamedBus(topology.buses, named.fromBus)
                    /\ (named.toBus # "" /\ NamedBus(topology.buses, named.toBus) # 0) =>
                            attached.toBus = NamedBus(topology.buses, named.toBus)

\* a component of the project names, in fromBus or toBus, a bus the topology built
\* from the project does not have
UnresolvedReference(p) ==
    LET buses == buildFromProject(p).buses
    IN  \E c \in Range(p.components) :
            \/ c.fromBus # "" /\ NamedBus(buses, c.fromBus) = 0
            \/ c.toBus # "" /\ NamedBus(buses, c.toBus) = 0

\* C15: if an explicit bus reference of a component cannot be resolved to a bus, the
\* topology build fails with a blocking topology error and the run is aborted: once
\* the topology step of such a project is over, the run has returned a failure and
\* has gone to no calculation stage.
C15_UnresolvedReferenceAborts ==
    (projectData # Null /\ pc \notin {"idle", "validate", "topology"}
        /\ validateInputs(projectData[1]).valid /\ UnresolvedReference(projectData[1])) =>
            /\ Returned
            /\ ~ret[1].success
            /\ ret[1].error.text = "Topology validation failed"
            /\ state.topology = Null

\* the project with its motors removed
WithoutMotors(p) ==
    [p EXCEPT !.components = SelectSeq(@, LAMBDA c : ~IsMotor(c))]

\* C16: the motors of the input change no bus's Thevenin R, X, |Z| or X/R and none of
\* its bolted (motor-free) fault currents: every bus has the values the same project
\* without its motors gives it, before and after the motor contribution is merged in;
\* motors only add the separate with-motors terms.
C16_MotorsLeaveTheveninAndBoltedCurrents ==
    state.shortCircuit # Null =>
        LET busSystem == toBusSystem(buildFromProject(WithoutMotors(projectData[1])))
            thevenin == calculateTheveninEquivalents(busSystem)
            shortCircuit == calculateShortCircuit(busSystem, thevenin)
            bolted == {"threePhase", "lineToGround", "lineToLine", "doubleLineToGround",
                       "symmetrical", "asymmetrical", "peak"}
        IN  /\ DOMAIN state.shortCircuit[1] = DOMAIN shortCircuit
            /\ \A b \in DOMAIN shortCircuit :
                /\ state.thevenin[1][b].r = thevenin[b].r
                /\ state.thevenin[1][b].x = thevenin[b].x
                /\ state.thevenin[1][b].z = thevenin[b].z
                /\ state.thevenin[1][b].xr = thevenin[b].xr
                /\ state.shortCircuit[1][b].impedance = shortCircuit[b].impedance
                /\ state.shortCircuit[1][b].faultCurrents = shortCircuit[b].faultCurrents
                /\ \A f \in bolted :
                    state.shortCircuit[1][b].faultCurrentsKA[f] = shortCircuit[b].faultCurrentsKA[f]

\* a run has returned a bus to which its motors added a first-cycle term
C16_MotorTermsAdded ==
    /\ Returned
    /\ ret[1].success
    /\ state.motorContribution # Null
    /\ \E b \in DOMAIN state.shortCircuit[1] :
        LET busResult == state.shortCircuit[1][b]
        IN  /\ busResult.motorContribution # Null
            /\ busResult.faultCurrents.threePhase > 0
            /\ busResult.faultCurrentsKA.threePhaseWithMotors > busResult.faultCurrentsKA.threePhase

\* the ledger of the run has an entry for component i with one of the descriptions
InLedger(i, descriptions) ==
    \E j \in DOMAIN state.assumptions :
        state.assumptions[j].idx = i /\ state.assumptions[j].description \in descriptions

\* every description a ledger entry of the run carries
LedgerDescriptions == {state.assumptions[j].description : j \in DOMAIN state.assumptions}

\* C17: every default the engine infers during a run appends an entry to the run's
\* assumption ledger that identifies what was assumed: once the topology is built,
\* a utility without xr (X/R 10 is used), a transformer without rx (X/R 10 is used),
\* a transformer without powerUnit (kVA or MVA is chosen from the secondary voltage)
\* and a cable without voltage (the voltage of the current bus is used) each have
\* their entry.
C17_InferredDefaultsInLedger ==
    state.topology # Null =>
        \A i \in DOMAIN projectData[1].components :
            LET c == projectData[1].components[i]
            IN  /\ (c.type = "utility" /\ Falsy(c.xr)) => InLedger(i, LedgerDescriptions)
                /\ (c.type = "transformer" /\ Falsy(c.rx)) =>
                        InLedger(i, {"R/X ratio not specified - using IEEE 141 typical value"})
                /\ (c.type = "transformer" /\ PowerUnitDefaulted(c)) =>
                        InLedger(i, {"Transformer missing powerUnit field. Defaulting"})
                /\ (c.type = "cable" /\ Falsy(c.voltage)) =>
                        InLedger(i, {"voltage not specified - using system voltage"})

\* C18: whichever entry point is invoked, a run rejected by input validation returns
\* the full list of violations: the error of the failure record lists every error
\* validateInputs found for the project.
C18_RejectionListsEveryViolation ==
    (pc = "done" /\ ~validateInputs(projectData[1]).valid) =>
        /\ ~ret[1].success
        /\ ret[1].error.errors = validateInputs(projectData[1]).errors

\* q = v * (toVoltage / fromVoltage)^2 exactly, by cross-multiplication in lowest terms
ReferredExactly(q, v, fromVoltage, toVoltage) ==
    LET g == Gcd(toVoltage, fromVoltage)
        up == toVoltage \div g
        down == fromVoltage \div g
    IN  q.num * (down * down) = v * (up * up) * q.den

\* C19: for every impedance (R, X) and every pair of positive voltages, referral
\* returns R and X each multiplied by exactly (V_to / V_from)^2, stepping down,
\* stepping up and between equal voltages, where the impedance comes back unchanged.
C19_ReferralScalesBySquaredRatio ==
    (call # Null /\ call[1].fn = "referImpedanceBetweenLevels") =>
        LET c == call[1]
        IN  /\ ReferredExactly(c.result.r, c.impedance.r, c.fromVoltage, c.toVoltage)
            /\ ReferredExactly(c.result.x, c.impedance.x, c.fromVoltage, c.toVoltage)
            /\ c.fromVoltage = c.toVoltage =>
                    /\ c.result.r = [num |-> c.impedance.r, den |-> 1]
                    /\ c.result.x = [num |-> c.impedance.x, den |-> 1]

\* 1.742 + j17.42 ohm at 13.2 kV has been referred to 440 V: both parts divided by 900
C19_StepDownReferred ==
    /\ call # Null
    /\ call[1].fn = "referImpedanceBetweenLevels"
    /\ call[1].impedance = [r |-> 1742, x |-> 17420]
    /\ call[1].fromVoltage = 13200
    /\ call[1].toVoltage = 440
    /\ call[1].result.r = [num |-> 871, den |-> 450]
    /\ call[1].result.x = [num |-> 871, den |-> 45]

\* C20: for all X/R >= 0, the asymmetry multiplier applied to a bus's asymmetrical and
\* peak currents lies within [1.0, 1.7321] and never decreases when X/R increases:
\* of two short-circuit steps on a bus, the one with the larger Thevenin X/R applies
\* at least as large a multiplier.
C20_AppliedMultiplierBoundedAndMonotone ==
    [][(call # Null /\ call' # Null /\ call[1].fn = "calculateShortCircuit"
            /\ call'[1].fn = "calculateShortCircuit") =>
        LET before == call[1]
            after == call'[1]
        IN  /\ after.result[1].results.multiplier >= 10000
            /\ after.result[1].results.multiplier <= 17321
            /\ before.thevenin[1].xr <= after.thevenin[1].xr =>
                    before.result[1].results.multiplier
                        <= after.result[1].results.multiplier]_vars

BandXR(kVA) ==
    IF kVA < 1000 THEN 2000
    ELSE IF kVA < 2500 THEN 1430
    ELSE IF kVA < 5000 THEN 1000
    ELSE IF kVA <= 10000 THEN 667
    ELSE 500

\* x / r is the given ratio (hundredths), within one percent
SplitBy(z, xr) == Abs(100 * z.x - z.r * xr) <= z.r + 100

\* C22: a transformer with no explicit X/R has its impedance split into R and X by the
\* default of its rating band (20 below 1 MVA, 14.3 for 1-2.5 MVA, 10 for 2.5-5 MVA,
\* 6.67 for 5-10 MVA, 5 above 10 MVA); an explicit X/R is used as given.
C22_DefaultSplitFollowsRatingBand ==
    (call # Null /\ call[1].fn = "toBusSystem.transformer") =>
        LET t == call[1].transformer
        IN  IF Falsy(t.rx) THEN SplitBy(call[1].result, BandXR(call[1].powerKVA))
            ELSE SplitBy(call[1].result, 100000 \div t.rx)

\* a and b differ by at most 0.1 % of b
WithinTenthPercent(a, b) == IsNum(a) /\ Abs(a - b) <= b \div 1000

\* a and b differ by at most 0.5 % of b: the resolution of a current that went through
\* the three-digit sqrt(3) and the integer square roots of the fixed point
WithinHalfPercent(a, b) == IsNum(a) /\ Abs(a - b) <= b \div 200

BandFactor(voltage, faultType) ==
    IF voltage <= 1000 THEN (IF faultType = "max" THEN 105 ELSE 95)
    ELSE (IF faultType = "max" THEN 110 ELSE 100)

\* C24: when the selected standard is IEC, the symmetrical fault current is computed
\* from the voltage multiplied by the correction factor of its band, cmax for a
\* maximum-fault study and cmin for a minimum-fault study, applied before I_sym:
\* I_sym = c * V / (sqrt(3) * |Z|), within one percent.
C24_IECCurrentFromCorrectedVoltage ==
    (call # Null /\ call[1].fn = "calculateIECShortCircuit" /\ call[1].voltage <= 230000) =>
        LET c == BandFactor(call[1].voltage, call[1].faultType)
            z == Hypot(call[1].impedance.r, call[1].impedance.x) \div 1000
            expected == (((call[1].voltage * c * 10) \div 1732) * 1000) \div z
        IN  /\ call[1].result.voltageFactor = c
            /\ Abs(call[1].result.symmetricalCurrent - expected) <= expected \div 100

\* every number of the Thevenin records and of the fault results is a number (neither
\* NaN nor absent)
TheveninNumbers ==
    IF state.thevenin = Null THEN {}
    ELSE UNION {{state.thevenin[1][b].r, state.thevenin[1][b].x, state.thevenin[1][b].z,
                 state.thevenin[1][b].xr} : b \in DOMAIN state.thevenin[1]}
FaultNumbers ==
    IF state.shortCircuit = Null THEN {}
    ELSE UNION {Range([i \in 1..4 |->
                        <<state.shortCircuit[1][b].impedance.r,
                          state.shortCircuit[1][b].impedance.x,
                          state.shortCircuit[1][b].impedance.z,
                          state.shortCircuit[1][b].impedance.xr>>[i]])
                \cup {state.shortCircuit[1][b].faultCurrents.threePhase,
                      state.shortCircuit[1][b].faultCurrents.asymmetrical,
                      state.shortCircuit[1][b].faultCurrents.peak,
                      state.shortCircuit[1][b].results.multiplier} :
                    b \in DOMAIN state.shortCircuit[1]}

\* C25: no value in a returned Thevenin record or fault result is NaN or infinite, and
\* whenever a denominator is zero (Thevenin |Z| = 0 in the short-circuit step) the
\* bounded fallback comes with a warning in the log, beyond the step's own entry.
C25_NoNonFiniteValueAndFallbackWarned ==
    [][/\ (Returned' /\ ret'[1].success) =>
            \A v \in TheveninNumbers' \cup FaultNumbers' : IsNum(v)
       /\ (pc = "shortCircuit" /\ pc' # "shortCircuit"
            /\ \E b \in DOMAIN state.thevenin[1] : state.thevenin[1][b].z = 0) =>
          Len(state'.calculationLog)
            > Len(state.calculationLog)
                + Len(StepLog(entry, "Step 4: Short circuit analysis"))]_vars

\* the record is of the unevaluated form: a list of missing fields and no result
UnevaluatedForm(r) ==
    /\ ~r.evaluated
    /\ r.missingFields # <<>>
    /\ r.arcingCurrent = Undefined /\ r.incidentEnergy = Undefined
    /\ r.arcFlashBoundary = Undefined /\ r.ppe = Null

\* the record is of the evaluated form: arcing current, incident energy, boundary and
\* PPE category present, and no missing field
EvaluatedForm(r) ==
    /\ r.evaluated
    /\ r.missingFields = <<>>
    /\ IsNum(r.arcingCurrent) /\ IsNum(r.incidentEnergy) /\ IsNum(r.arcFlashBoundary)
    /\ r.ppe # Null
    /\ r.ppe[1].category.typeof \in {"number", "string"}

RECURSIVE ReachedFrom(_, _)
ReachedFrom(seen, connections) ==
    LET next == seen \cup {connections[i].toBus : i \in
                               {j \in DOMAIN connections : connections[j].fromBus \in seen}}
    IN  IF next = seen THEN seen ELSE ReachedFrom(next, connections)

SourceBuses(buses) == {i \in DOMAIN buses : buses[i].type = "source"}

\* C27: after every successful topology build, whatever the ordered component
\* list, exactly one bus has the role source and every other bus is reached from
\* it through the recorded bus-to-bus connections
C27_OneSourceReachesEveryBus ==
    (call # Null /\ call[1].fn = "buildFromProject" /\ call[1].validation.errors = <<>>) =>
        /\ Cardinality(SourceBuses(call[1].buses)) = 1
        /\ ReachedFrom(SourceBuses(call[1].buses), call[1].connections)
                = {call[1].buses[i].id : i \in DOMAIN call[1].buses}

\* a build of a second bus from which a cable runs back to the source bus
C27_ChainWithBackEdge ==
    /\ call # Null /\ call[1].fn = "buildFromProject" /\ call[1].validation.errors = <<>>
    /\ Len(call[1].buses) = 2
    /\ \E i \in DOMAIN call[1].connections :
            call[1].connections[i].toBus <= call[1].connections[i].fromBus

\* a is the beginning of b, entry for entry
IsPrefix(a, b) == Len(a) <= Len(b) /\ SubSeq(b, 1, Len(a)) = a

\* C28: within a run the calculation log and the assumption ledger only grow at
\* the end: every step from the first log entry to the return keeps the entries
\* written so far, in their order and unmodified, and the returned result
\* carries the log and the ledger as they stand
C28_LogAndLedgerOnlyAppended ==
    [][pc # "idle" =>
        /\ IsPrefix(state.calculationLog, state'.calculationLog)
        /\ IsPrefix(state.assumptions, state'.assumptions)
        /\ (Returned' /\ ret'[1].success) =>
                /\ ret'[1].log = state'.calculationLog
                /\ ("assumptions" \in DOMAIN ret'[1]) =>
                        ret'[1].assumptions = state'.assumptions]_vars

\* a full run has returned with at least two assumptions and the log of all of
\* its stages
C28_RunWithLedgerAndLog ==
    /\ Returned /\ ret[1].success /\ entry = "runAllAnalysis"
    /\ Len(state.assumptions) >= 2
    /\ Len(state.calculationLog) >= 9

\* C29: every utility source that passes input validation gives its bus a strictly
\* positive source impedance, whether it was specified by faultCurrent, by
\* shortCircuitMVA or by isc
C29_ValidatedUtilityHasPositiveImpedance ==
    (call # Null /\ call[1].fn = "validateInputs.utility" /\ call[1].valid) =>
        /\ IsNum(call[1].impedance.r) /\ IsNum(call[1].impedance.x)
        /\ call[1].impedance.r >= 0 /\ call[1].impedance.x >= 0
        /\ call[1].impedance.r + call[1].impedance.x > 0

\* C30: a single-analysis entry point called with the project of a successful
\* runAllAnalysis returns that run's per-bus records: runShortCircuitAnalysis its
\* short-circuit records, runArcFlashAnalysis its arc-flash records, motors
\* present or not
C30_SingleEntryPointsMatchPipeline ==
    (/\ Returned /\ ret[1].success
     /\ history # <<>> /\ history[1].success
     /\ "results" \in DOMAIN history[1]
     /\ history[1].results.projectData = projectData[1]) =>
        /\ entry = "runShortCircuitAnalysis" =>
                Some(ret[1].shortCircuit) = history[1].results.shortCircuit
        /\ entry = "runArcFlashAnalysis" =>
                Some(ret[1].arcFlash) = history[1].results.arcFlash

====
